---------------------------- MODULE Spec2Model ----------------------------
(***************************************************************************)
(* Storage backends of the Teensy HAL (oc::hal::teensy):                   *)
(*   EEPROMBackend    immediate-write register array                       *)
(*   LittleFSBackend  one file on the internal flash filesystem            *)
(*   SDCardBackend    RAM-cached file on the SD card                       *)
(*   SDCardBackendFH  SD card through a file handle that is kept open      *)
(* One backend is in use in a behaviour (`backend`); the caller's calls    *)
(* are the actions, and `last` records the last call with what it          *)
(* returned, what it put in the caller's buffer and which library calls    *)
(* it made on the medium.                                                  *)
(*                                                                         *)
(* Scaling: the address space is Capacity bytes instead of 4096, requests  *)
(* carry at most MaxSize bytes, unsigned arithmetic is modulo Word instead *)
(* of 2^32, and a byte is one of ZERO, DATA, ERASED.                       *)
(* Under Spec the caller keeps its addresses near [0, capacity()); under   *)
(* SpecWide it also passes the address at the top of the range, for which  *)
(* the sum address + size that the code computes wraps around.             *)
(* The library below the backends (EEPROM, LittleFS, SD) is modelled by    *)
(* what the Teensy core does: FILE_WRITE opens read/write, creates the     *)
(* file, keeps its content and positions at its end (as the source notes   *)
(* where it commits the SD cache), and an SD seek beyond the end of the    *)
(* file fails and leaves the position where it was.                        *)
(* An SD card may be pulled out and pushed in between two calls; the card  *)
(* pushed in is the one that was taken out, or another one without a file. *)
(*                                                                         *)
(* Drivers, each under a specification of its own:                         *)
(*   SpecOutput     waitForSerial of TeensyOutput.hpp, the clock, the host *)
(*   SpecUsbSerial  UsbSerial: init, send with COBS framing                *)
(*   SpecEncoder    EncoderController<N>: init, update, callbacks          *)
(*   SpecButton     ButtonController<N>: init, update with debounce        *)
(*   SpecMux        GenericMux<NumPins>: init, select, the two reads       *)
(*   SpecMidi       UsbMidi: init, note on and off, allNotesOff            *)
(*   SpecPolling    init and update of one of ButtonController,            *)
(*                  EncoderController, UsbMidi, UsbSerial (`polled`),      *)
(*                  with its callback setters and the arrival of its input *)
(* and SpecResize, the RAM-cached SD backend with setCapacity.             *)
(***************************************************************************)
EXTENDS Integers, Sequences, FiniteSets

\* ------------------------------------------------------------------ bounds
Capacity == 2      \* capacity_ / EEPROM.length(), scaled down from 4096
MaxSize == 2       \* longest request (size argument)
MaxFile == 4       \* longest file the filesystem is let to hold
Word == 8         \* uint32_t / size_t arithmetic is modulo Word, scaled down from 2^32
MaxTimeout == 3    \* longest timeout of waitForSerial, in milliseconds
MaxFrame == 2      \* largest maxFrameSize, scaled down from COBS_MAX_FRAME_SIZE
MaxWrites == 2     \* Serial.write calls the host lets pile up before it reads
NumEncoders == 3   \* N, the number of encoders of an EncoderController
MaxDebounce == 2   \* longest debounce time, in milliseconds, scaled down from 5
MaxChannels == 2   \* MIDI channels a caller plays on, scaled down from 16
MaxNotes == 2      \* notes a caller plays on each channel, scaled down from 128
MaxActive == 2     \* largest maxActiveNotes of a UsbMidiConfig, scaled down from 32
MaxMidiIn == 2     \* messages usbMIDI holds before the program reads

\* ------------------------------------------------------- program constants
ERASED == 255            \* 0xFF, the erased state
ZERO == 0                \* value-initialised vector element
DATA == 170              \* a data byte that is neither of the two

Bytes == {ZERO, DATA, ERASED}
DataBytes == {DATA, ERASED}

Addresses == 0..(Capacity + 1)
\* addresses at the top of the range, whose sum with a size passes 2^32
WideAddresses == {Word - 1}
Sizes == 0..MaxSize
Buffers(n) == [1..n -> DataBytes]

NumButtons == 2          \* N, the number of buttons (of the README's example)
NumPins == 2             \* NumPins, the select pins of CD74HC4052 = GenericMux<2>

Backends == {"EEPROMBackend", "LittleFSBackend", "SDCardBackend", "SDCardBackendFH"}

VARIABLES
    backend,          \* the backend the caller was configured with
    wide,             \* the caller also passes addresses near the top of the 32-bit range
    last,             \* the last call and what the caller saw of it
    fresh,            \* the medium held nothing at start and nothing was stored since
    eeprom,           \* EEPROM: the register array
    lfs_file,         \* LittleFS: the file on the filesystem
    lfs_initialized,  \* LittleFSBackend::initialized_
    lfs_capacity,     \* LittleFSBackend::capacity_
    sd_present,       \* SD: a card is in the slot
    sd_mounted,       \* SD: SD.begin() has succeeded
    sd_file,          \* SD: the file on the card
    sd_removed,       \* SD: the file on the card that was pulled out under an open handle
    sdc_initialized,  \* SDCardBackend::initialized_
    sdc_dirty,        \* SDCardBackend::dirty_
    sdc_cache,        \* SDCardBackend::cache_
    sdc_capacity,     \* SDCardBackend::capacity_
    sdc_failed,       \* a commit of the SDCardBackend has failed
    sdf_initialized,  \* SDCardBackend (file handle)::initialized_
    sdf_open,         \* SDCardBackend (file handle)::file_ is an open handle
    sdf_pos,          \* position of file_
    sdf_capacity,     \* SDCardBackend (file handle)::capacity_
    millis,           \* Arduino: millis(), the milliseconds since boot
    serial_connected, \* Arduino: static_cast<bool>(Serial)
    ws_pc,            \* waitForSerial: where the caller is
    ws_timeoutMs,     \* waitForSerial: the argument
    ws_elapsed,       \* waitForSerial: milliseconds passed since the call began
    usb_initialized,  \* UsbSerial::initialized_
    usb_maxFrameSize, \* UsbSerial::maxFrameSize_
    usb_last,         \* UsbSerial: the last call
    serial_out,       \* Arduino: the Serial.write calls the host has not read yet
    enc_initialized,  \* EncoderController::initialized_
    enc_hw,           \* EncoderController::encoders_hw_, the state of each
    enc_pending,      \* EncoderController::encoders_logic_, an event waits in each
    enc_callback,     \* EncoderController::callback_ is set
    enc_last,         \* EncoderController: the last call
    btn_initialized,  \* ButtonController::initialized_
    btn_states,       \* ButtonController::states_
    btn_last_change,  \* ButtonController::last_change_
    btn_callback,     \* ButtonController::callback_ is set
    btn_debounce,     \* ButtonController::debounce_ms_
    btn_lastEvent,    \* ButtonController: the last event delivered for each button
    btn_last,         \* ButtonController: the last call
    mux_initialized,  \* GenericMux::initialized_
    mux_current,      \* GenericMux::current_channel_
    mux_pins,         \* the level each select pin is driven to
    mux_last,         \* the last call of GenericMux: its hardware operations in order, its result
    midi_initialized, \* UsbMidi::initialized_
    midi_max,         \* UsbMidi::max_active_notes_
    midi_active,      \* UsbMidi::active_notes_
    midi_sounding,    \* the notes the receiver holds on: a NoteOn was sent and no NoteOff since
    midi_last,        \* the last call of UsbMidi and the messages it sent
    usb_onReceive,    \* UsbSerial::onReceive_ is set
    serial_in,        \* the bytes the host wrote that Serial has not handed out
    usb_decoder,      \* UsbSerial::decoder_: the bytes of the frame it is in
    usb_received,     \* the messages the last call passed to onReceive_
    midi_on,          \* the callbacks of UsbMidi that are set, by the type of message
    midi_in,          \* the messages usbMIDI holds for read(), by type
    midi_called,      \* the callbacks the last call of UsbMidi called, in order
    polled            \* the driver of the four polled ones that this behaviour is about

vars == <<backend, wide, last, fresh, eeprom, lfs_file, lfs_initialized, lfs_capacity,
          sd_present, sd_mounted, sd_file, sd_removed, sdc_initialized, sdc_dirty, sdc_cache,
          sdc_capacity, sdc_failed, sdf_initialized, sdf_open, sdf_pos, sdf_capacity,
          millis, serial_connected, ws_pc, ws_timeoutMs, ws_elapsed,
          usb_initialized, usb_maxFrameSize, usb_last, serial_out,
          enc_initialized, enc_hw, enc_pending, enc_callback, enc_last,
          btn_initialized, btn_states, btn_last_change, btn_callback, btn_debounce, btn_lastEvent, btn_last,
          mux_initialized, mux_current, mux_pins, mux_last,
          midi_initialized, midi_max, midi_active, midi_sounding, midi_last,
          usb_onReceive, serial_in, usb_decoder, usb_received,
          midi_on, midi_in, midi_called,
          polled>>

eepromVars == <<eeprom>>
lfsVars == <<lfs_file, lfs_initialized, lfs_capacity>>
sdVars == <<sd_present, sd_mounted, sd_file, sd_removed>>
sdcVars == <<sdc_initialized, sdc_dirty, sdc_cache, sdc_capacity, sdc_failed>>
sdfVars == <<sdf_initialized, sdf_open, sdf_pos, sdf_capacity>>
storageVars == <<backend, wide, last, fresh, eepromVars, lfsVars, sdVars, sdcVars, sdfVars>>
outputVars == <<millis, serial_connected, ws_pc, ws_timeoutMs, ws_elapsed>>
usbVars == <<usb_initialized, usb_maxFrameSize, usb_last, serial_out>>
encVars == <<enc_initialized, enc_hw, enc_pending, enc_callback, enc_last>>
btnVars == <<btn_initialized, btn_states, btn_last_change, btn_callback, btn_debounce, btn_lastEvent, btn_last>>
muxVars == <<mux_initialized, mux_current, mux_pins, mux_last>>
midiVars == <<midi_initialized, midi_max, midi_active, midi_sounding, midi_last>>
usbRxVars == <<usb_onReceive, serial_in, usb_decoder, usb_received>>
midiRxVars == <<midi_on, midi_in, midi_called>>
pollVars == <<polled>>
driverVars == <<outputVars, usbVars, encVars, btnVars, muxVars, midiVars, usbRxVars, midiRxVars, pollVars>>
notOutputVars == <<storageVars, usbVars, encVars, btnVars, muxVars, midiVars, usbRxVars, midiRxVars, pollVars>>
notUsbVars == <<storageVars, outputVars, encVars, btnVars, muxVars, midiVars, usbRxVars, midiRxVars, pollVars>>
notEncVars == <<storageVars, outputVars, usbVars, btnVars, muxVars, midiVars, usbRxVars, midiRxVars, pollVars>>
notBtnVars == <<storageVars, outputVars, usbVars, encVars, muxVars, midiVars, usbRxVars, midiRxVars, pollVars>>
notMuxVars == <<storageVars, outputVars, usbVars, encVars, btnVars, midiVars, usbRxVars, midiRxVars, pollVars>>
notMidiVars == <<storageVars, outputVars, usbVars, encVars, btnVars, muxVars, usbRxVars, midiRxVars, pollVars>>
notSerialVars == <<storageVars, outputVars, encVars, btnVars, muxVars, midiVars, midiRxVars, pollVars>>
notMidiIoVars == <<storageVars, outputVars, usbVars, encVars, btnVars, muxVars, usbRxVars, pollVars>>

\* the addresses the caller passes
CallAddresses == IF wide THEN Addresses \cup WideAddresses ELSE Addresses

\* ----------------------------------------------------------------- helpers
Min(x, y) == IF x < y THEN x ELSE y

\* address + size as the code computes it
Sum32(address, size) == (address + size) % Word

\* address + size passes the top of the range: the sum the code computes is not
\* the true sum, and pointer + address is not inside the object
Overflows(address, size) == address + size >= Word

\* memset(p, value, n)
Fill(value, n) == [i \in 1..n |-> value]

\* the n elements of seq from 0-based offset `from` (all of them must exist)
Slice(seq, from, n) == [i \in 1..n |-> seq[from + i]]

\* seq with the bytes of data stored from 0-based offset `at` (memcpy into seq)
Store(seq, at, data) ==
    [i \in 1..Len(seq) |->
        IF i > at /\ i <= at + Len(data) THEN data[i - at] ELSE seq[i]]

\* a file of the filesystem: absent, or its bytes
NoFile == [exists |-> FALSE, data |-> <<>>]
FileOf(bytes) == [exists |-> TRUE, data |-> bytes]

\* what the caller sees of a call
Call(op, address, size, data, ret, ok, buf, io, phys) ==
    [op |-> op, a |-> address, n |-> size, data |-> data, ret |-> ret,
     ok |-> ok, buf |-> buf, io |-> io, phys |-> phys]

NoCall == Call("none", 0, 0, <<>>, 0, FALSE, <<>>, {}, 0)

\* ------------------------------------------------------------ EEPROMBackend
EEPROM_length == Capacity

\* address + i as the loops of read, write and erase compute it
EEPROM_index(address, i) == (address + i) % Word

\* EEPROM.read(idx): the library answers 0xFF for an index outside the array
EEPROM_read(array, idx) == IF idx \in DOMAIN array THEN array[idx] ELSE ERASED

\* faulty variant: the rest of the array is erased with every store
EEPROM_update_erasesRest(array, address, data) ==
    [idx \in DOMAIN array |->
        LET i == (idx + Word - address) % Word
        IN IF i < Len(data) THEN data[i + 1] ELSE ERASED]

\* faulty variant: the bytes are kept back until a commit
EEPROM_update_deferred(array, address, data) == array

\* EEPROM.update(address + i, data[i]) for every i < size: the library ignores
\* an index outside the array
EEPROM_update(array, address, data) ==
    [idx \in DOMAIN array |->
        LET i == (idx + Word - address) % Word
        IN IF i < Len(data) THEN data[i + 1] ELSE array[idx]]

\* faulty variant: every byte of the region is written (EEPROM.write)
EEPROM_physical_writesAll(array, address, data) == Len(data)

\* the bytes EEPROM.update physically writes: those whose value changes
EEPROM_physical(array, address, data) ==
    Cardinality({i \in 0..(Len(data) - 1) :
                    /\ EEPROM_index(address, i) \in DOMAIN array
                    /\ array[EEPROM_index(address, i)] # data[i + 1]})

EEPROMBackend_capacity == EEPROM_length

EEPROMBackend_begin ==
    /\ backend = "EEPROMBackend"
    /\ last' = Call("begin", 0, 0, <<>>, 0, TRUE, <<>>, {}, 0)
    /\ UNCHANGED <<driverVars, backend, wide, fresh, eepromVars, lfsVars, sdVars, sdcVars, sdfVars>>

EEPROMBackend_readBuf(address, size) ==
    IF Sum32(address, size) > EEPROMBackend_capacity THEN <<>>
    ELSE [i \in 1..size |-> EEPROM_read(eeprom, EEPROM_index(address, i - 1))]

EEPROMBackend_readRet(address, size) ==
    IF Sum32(address, size) > EEPROMBackend_capacity THEN 0 ELSE size

EEPROMBackend_read ==
    /\ backend = "EEPROMBackend"
    /\ \E address \in CallAddresses, size \in Sizes :
        last' = Call("read", address, size, <<>>,
                     EEPROMBackend_readRet(address, size), FALSE,
                     EEPROMBackend_readBuf(address, size), {}, 0)
    /\ UNCHANGED <<driverVars, backend, wide, fresh, eepromVars, lfsVars, sdVars, sdcVars, sdfVars>>

EEPROMBackend_store(op, address, data) ==
    LET size == Len(data) IN
    IF Sum32(address, size) > EEPROMBackend_capacity
    THEN /\ last' = Call(op, address, size, data, 0, FALSE, <<>>, {}, 0)
         /\ UNCHANGED <<fresh, eeprom>>
    ELSE /\ eeprom' = EEPROM_update(eeprom, address, data)
         /\ fresh' = FALSE
         /\ last' = Call(op, address, size, data, size, op = "erase", <<>>, {},
                         EEPROM_physical(eeprom, address, data))

EEPROMBackend_write ==
    /\ backend = "EEPROMBackend"
    /\ \E address \in CallAddresses, size \in Sizes : \E buffer \in Buffers(size) :
        EEPROMBackend_store("write", address, buffer)
    /\ UNCHANGED <<driverVars, backend, wide, lfsVars, sdVars, sdcVars, sdfVars>>

EEPROMBackend_commit ==
    /\ backend = "EEPROMBackend"
    /\ last' = Call("commit", 0, 0, <<>>, 0, TRUE, <<>>, {}, 0)
    /\ UNCHANGED <<driverVars, backend, wide, fresh, eepromVars, lfsVars, sdVars, sdcVars, sdfVars>>

EEPROMBackend_erase ==
    /\ backend = "EEPROMBackend"
    /\ \E address \in CallAddresses, size \in Sizes :
        EEPROMBackend_store("erase", address, Fill(ERASED, size))
    /\ UNCHANGED <<driverVars, backend, wide, lfsVars, sdVars, sdcVars, sdfVars>>

EEPROMBackend_isDirty == FALSE


\* ------------------------------------------------------------- the SD card
\* SD.begin(BUILTIN_SDCARD): fails without a card, and may fail with one
SD_beginOutcomes == IF sd_present THEN BOOLEAN ELSE {FALSE}

\* SD.open(filename, FILE_WRITE): needs a mounted, present card; may fail then too
SD_openWriteOutcomes == IF sd_present /\ sd_mounted THEN BOOLEAN ELSE {FALSE}

\* how many of `want` bytes a file.write stores: all, or fewer when the card
\* is full, fails or is gone
SD_writeOutcomes(want) == IF sd_present THEN 0..want ELSE {0}

\* the bytes of a file after file.write(data) at position pos <= size
File_write(bytes, pos, data) ==
    [i \in 1..(IF pos + Len(data) > Len(bytes) THEN pos + Len(data) ELSE Len(bytes)) |->
        IF i > pos /\ i <= pos + Len(data) THEN data[i - pos] ELSE bytes[i]]

\* file.truncate(size)
File_truncate(bytes, size) == SubSeq(bytes, 1, Min(size, Len(bytes)))

\* the card is pulled out of, or pushed into, the slot (an event between two
\* calls, recorded in `last` like a call)
SD_remove ==
    /\ backend \in {"SDCardBackend", "SDCardBackendFH"}
    /\ sd_present
    /\ sd_present' = FALSE
    /\ sd_removed' = IF backend = "SDCardBackendFH" /\ sdf_open THEN sd_file ELSE sd_removed
    /\ last' = Call("remove", 0, 0, <<>>, 0, FALSE, <<>>, {}, 0)
    /\ UNCHANGED <<driverVars, backend, wide, fresh, eepromVars, lfsVars, sd_mounted, sd_file,
                   sdcVars, sdfVars>>

\* the cards that may be pushed in: the one that was taken out, or another
\* card, which holds no file yet
SD_cards == {sd_file, NoFile}

SD_insert ==
    /\ backend \in {"SDCardBackend", "SDCardBackendFH"}
    /\ ~sd_present
    /\ sd_present' = TRUE
    /\ \E card \in SD_cards :
        /\ sd_file' = card
        /\ sdf_pos' = Min(sdf_pos, Len(card.data))
    /\ last' = Call("insert", 0, 0, <<>>, 0, FALSE, <<>>, {}, 0)
    /\ UNCHANGED <<driverVars, backend, wide, fresh, eepromVars, lfsVars, sd_mounted, sd_removed,
                   sdcVars, sdf_initialized, sdf_open, sdf_capacity>>

\* ------------------------------------------------ SDCardBackend (RAM cache)
\* faulty variant: the whole file is loaded, whatever the capacity
SDCardBackend_loadToCache_noClamp(file, capacity) ==
    IF ~file.exists THEN <<>> ELSE file.data

SDCardBackend_loadToCache(file, capacity) ==
    IF ~file.exists THEN <<>>
    ELSE Slice(file.data, 0, Min(Len(file.data), capacity))

\* faulty variant: begin mounts and loads again on every call
SDCardBackend_beginSkips_never == FALSE

\* begin's early return
SDCardBackend_beginSkips == sdc_initialized

SDCardBackend_begin ==
    /\ backend = "SDCardBackend"
    /\ IF SDCardBackend_beginSkips
       THEN /\ last' = Call("begin", 0, 0, <<>>, 0, TRUE, <<>>, {}, 0)
            /\ UNCHANGED <<sdVars, sdcVars>>
       ELSE \E mounted \in SD_beginOutcomes :
            IF ~mounted
            THEN /\ last' = Call("begin", 0, 0, <<>>, 0, FALSE, <<>>, {"SD.begin"}, 0)
                 /\ UNCHANGED <<sdVars, sdcVars>>
            ELSE /\ sd_mounted' = TRUE
                 /\ sdc_initialized' = TRUE
                 /\ sdc_cache' = SDCardBackend_loadToCache(sd_file, sdc_capacity)
                 /\ last' = Call("begin", 0, 0, <<>>, 0, TRUE, <<>>,
                                 {"SD.begin", "SD.open"}, 0)
                 /\ UNCHANGED <<sd_present, sd_file, sd_removed, sdc_dirty, sdc_capacity, sdc_failed>>
    /\ UNCHANGED <<driverVars, backend, wide, fresh, eepromVars, lfsVars, sdfVars>>

SDCardBackend_available == sdc_initialized

SDCardBackend_rejects(address, size) ==
    ~sdc_initialized \/ Sum32(address, size) > sdc_capacity

SDCardBackend_readBuf(address, size) ==
    IF SDCardBackend_rejects(address, size) THEN <<>>
    ELSE IF Sum32(address, size) <= Len(sdc_cache) THEN Slice(sdc_cache, address, size)
    ELSE IF address < Len(sdc_cache)
         THEN LET fromCache == Len(sdc_cache) - address
              IN Slice(sdc_cache, address, fromCache) \o Fill(ERASED, size - fromCache)
    ELSE Fill(ERASED, size)

SDCardBackend_readRet(address, size) ==
    IF SDCardBackend_rejects(address, size) THEN 0 ELSE size

\* what read can leave in buffer: a memcpy from cache_.data() + address that
\* starts outside the cache copies whatever the memory holds there
SDCardBackend_readBufs(address, size) ==
    IF /\ ~SDCardBackend_rejects(address, size)
       /\ Overflows(address, size)
       /\ Sum32(address, size) <= Len(sdc_cache)
    THEN [1..size -> Bytes]
    ELSE {SDCardBackend_readBuf(address, size)}

\* faulty variant: the cache is grown to cover the region read
SDCardBackend_readCache_grows(address, size) ==
    IF SDCardBackend_rejects(address, size) \/ Sum32(address, size) <= Len(sdc_cache)
    THEN sdc_cache
    ELSE sdc_cache \o Fill(ERASED, Sum32(address, size) - Len(sdc_cache))

\* cache_ after read: read copies from it and stores nothing in it
SDCardBackend_readCache(address, size) == sdc_cache

SDCardBackend_read ==
    /\ backend = "SDCardBackend"
    /\ \E address \in CallAddresses, size \in Sizes :
        \E buf \in SDCardBackend_readBufs(address, size) :
        /\ last' = Call("read", address, size, <<>>,
                        SDCardBackend_readRet(address, size), FALSE, buf, {}, 0)
        /\ sdc_cache' = SDCardBackend_readCache(address, size)
    /\ UNCHANGED <<driverVars, backend, wide, fresh, eepromVars, lfsVars, sdVars, sdc_initialized,
                   sdc_dirty, sdc_capacity, sdc_failed, sdfVars>>

\* faulty variant: the gap between the old end and the write address is not filled
SDCardBackend_writeCache_noGapFill(cache, address, buffer) ==
    LET size == Len(buffer)
        oldSize == Len(cache)
        resized == IF address + size > oldSize
                   THEN cache \o Fill(ZERO, address + size - oldSize) ELSE cache
    IN Store(resized, address, buffer)

\* faulty variant: the 0xFF fill starts at the start of the cache, not at its old end
SDCardBackend_writeCache_fillsFromStart(cache, address, buffer) ==
    LET size == Len(buffer)
        oldSize == Len(cache)
        grows == address + size > oldSize
        resized == IF grows THEN cache \o Fill(ZERO, address + size - oldSize) ELSE cache
        filled == IF grows /\ address > oldSize
                  THEN Store(resized, 0, Fill(ERASED, address))
                  ELSE resized
    IN Store(filled, address, buffer)

\* cache_ after write's resize, gap fill and memcpy
SDCardBackend_writeCache(cache, address, buffer) ==
    LET size == Len(buffer)
        oldSize == Len(cache)
        grows == address + size > oldSize
        resized == IF grows THEN cache \o Fill(ZERO, address + size - oldSize) ELSE cache
        filled == IF grows /\ address > oldSize
                  THEN Store(resized, oldSize, Fill(ERASED, address - oldSize))
                  ELSE resized
    IN Store(filled, address, buffer)

\* the length of cache_ after the resize of write and erase
SDCardBackend_resized(cache, address, size) ==
    IF Sum32(address, size) > Len(cache) THEN Sum32(address, size) ELSE Len(cache)

\* what write can leave in cache_: a memset and a memcpy that run outside the
\* vector leave any bytes in it
SDCardBackend_writeCaches(cache, address, buffer) ==
    IF Overflows(address, Len(buffer))
    THEN [1..SDCardBackend_resized(cache, address, Len(buffer)) -> Bytes]
    ELSE {SDCardBackend_writeCache(cache, address, buffer)}

SDCardBackend_write ==
    /\ backend = "SDCardBackend"
    /\ \E address \in CallAddresses, size \in Sizes : \E buffer \in Buffers(size) :
        IF SDCardBackend_rejects(address, size)
        THEN /\ last' = Call("write", address, size, buffer, 0, FALSE, <<>>, {}, 0)
             /\ UNCHANGED <<fresh, sdcVars>>
        ELSE /\ sdc_cache' \in SDCardBackend_writeCaches(sdc_cache, address, buffer)
             /\ sdc_dirty' = TRUE
             /\ fresh' = FALSE
             /\ last' = Call("write", address, size, buffer, size, FALSE, <<>>, {}, 0)
             /\ UNCHANGED <<sdc_initialized, sdc_capacity, sdc_failed>>
    /\ UNCHANGED <<driverVars, backend, wide, eepromVars, lfsVars, sdVars, sdfVars>>

\* faulty variant: the file is not truncated after the write
SDCardBackend_commitFile_noTruncate(bytes, cache, written) ==
    File_write(bytes, 0, SubSeq(cache, 1, written))

\* the file after commit's seek(0), write of `written` bytes and truncate(written)
SDCardBackend_commitFile(bytes, cache, written) ==
    File_truncate(File_write(bytes, 0, SubSeq(cache, 1, written)), written)

\* faulty variants: the flag is cleared whatever was written; the flag is never cleared
SDCardBackend_commitDirty_alwaysClean(cache, written) == FALSE
SDCardBackend_commitDirty_neverClean(cache, written) == TRUE

\* faulty variant: the flag is cleared as soon as some bytes were written
SDCardBackend_commitDirty_cleanIfAny(cache, written) == written = 0

\* dirty_ after commit's write
SDCardBackend_commitDirty(cache, written) == written # Len(cache)

\* faulty variant: commit writes the card also when nothing is dirty
SDCardBackend_commitSkips_ignoresDirty == ~sdc_initialized

\* commit's early return
SDCardBackend_commitSkips == ~sdc_dirty \/ ~sdc_initialized

SDCardBackend_commit ==
    /\ backend = "SDCardBackend"
    /\ IF SDCardBackend_commitSkips
       THEN /\ last' = Call("commit", 0, 0, <<>>, 0, TRUE, <<>>, {}, 0)
            /\ UNCHANGED <<sdVars, sdcVars>>
       ELSE \E opened \in SD_openWriteOutcomes :
            IF ~opened
            THEN /\ last' = Call("commit", 0, 0, <<>>, 0, FALSE, <<>>, {"SD.open"}, 0)
                 /\ sdc_failed' = TRUE
                 /\ UNCHANGED <<sdVars, sdc_initialized, sdc_dirty, sdc_cache, sdc_capacity>>
            ELSE \E written \in SD_writeOutcomes(Len(sdc_cache)) :
                 /\ sd_file' = FileOf(SDCardBackend_commitFile(sd_file.data, sdc_cache, written))
                 /\ sdc_dirty' = SDCardBackend_commitDirty(sdc_cache, written)
                 /\ sdc_failed' = (sdc_failed \/ written # Len(sdc_cache))
                 /\ last' = Call("commit", 0, 0, <<>>, written, written = Len(sdc_cache),
                                 <<>>, {"SD.open", "seek", "write", "truncate", "close"}, 0)
                 /\ UNCHANGED <<sd_present, sd_mounted, sd_removed, sdc_initialized, sdc_cache,
                                sdc_capacity>>
    /\ UNCHANGED <<driverVars, backend, wide, fresh, eepromVars, lfsVars, sdfVars>>

\* cache_ after erase's resize and memset
SDCardBackend_eraseCache(cache, address, size) ==
    LET resized == IF address + size > Len(cache)
                   THEN cache \o Fill(ERASED, address + size - Len(cache))
                   ELSE cache
    IN Store(resized, address, Fill(ERASED, size))

\* what erase can leave in cache_: a memset that runs outside the vector leaves
\* any bytes in it
SDCardBackend_eraseCaches(cache, address, size) ==
    IF Overflows(address, size)
    THEN [1..SDCardBackend_resized(cache, address, size) -> Bytes]
    ELSE {SDCardBackend_eraseCache(cache, address, size)}

SDCardBackend_erase ==
    /\ backend = "SDCardBackend"
    /\ \E address \in CallAddresses, size \in Sizes :
        IF SDCardBackend_rejects(address, size)
        THEN /\ last' = Call("erase", address, size, <<>>, 0, FALSE, <<>>, {}, 0)
             /\ UNCHANGED <<fresh, sdcVars>>
        ELSE /\ sdc_cache' \in SDCardBackend_eraseCaches(sdc_cache, address, size)
             /\ sdc_dirty' = TRUE
             /\ fresh' = FALSE
             /\ last' = Call("erase", address, size, <<>>, size, TRUE, <<>>, {}, 0)
             /\ UNCHANGED <<sdc_initialized, sdc_capacity, sdc_failed>>
    /\ UNCHANGED <<driverVars, backend, wide, eepromVars, lfsVars, sdVars, sdfVars>>

SDCardBackend_isDirty == sdc_dirty

\* ---------------------------------------------------------- LittleFSBackend
\* the largest position of a LittleFS file, scaled down from 2^31 - 1
LFS_FILE_MAX == Word \div 2

\* file.seek(pos) on a LittleFS file succeeds, also beyond the end of the file,
\* up to the largest position
LFS_seek(pos) == pos <= LFS_FILE_MAX

\* new uint8_t[n] gives a buffer, or a null pointer when n bytes are not to be
\* had (the RAM is far smaller than the address range)
Heap_allocates(n) == 2 * n <= Word

\* file.read(buffer, n) at position pos: the bytes the file has from there
LFS_fileRead(bytes, pos, n) ==
    IF pos >= Len(bytes) THEN <<>>
    ELSE Slice(bytes, pos, Min(n, Len(bytes) - pos))

\* the content of `new uint8_t[n]` before anything is stored in it
Uninitialized(n) == [1..n -> Bytes]

\* faulty variant: initialized_ is set before the mount is tried
LittleFSBackend_beginMarks_always(mounted) == TRUE

\* initialized_ after begin() has called fs_.begin(fsSize_)
LittleFSBackend_beginMarks(mounted) == mounted

LittleFSBackend_begin ==
    /\ backend = "LittleFSBackend"
    /\ IF lfs_initialized
       THEN /\ last' = Call("begin", 0, 0, <<>>, 0, TRUE, <<>>, {}, 0)
            /\ UNCHANGED lfs_initialized
       ELSE \E mounted \in BOOLEAN :
            /\ lfs_initialized' = LittleFSBackend_beginMarks(mounted)
            /\ last' = Call("begin", 0, 0, <<>>, 0, mounted, <<>>, {"fs.begin"}, 0)
    /\ UNCHANGED <<driverVars, backend, wide, fresh, eepromVars, lfs_file, lfs_capacity, sdVars, sdcVars,
                   sdfVars>>

LittleFSBackend_available == lfs_initialized

LittleFSBackend_rejects(address, size) ==
    ~lfs_initialized \/ Sum32(address, size) > lfs_capacity

\* faulty variant: the missing file is read as zeros
LittleFSBackend_readBuf_zeroFill(address, size) ==
    IF LittleFSBackend_rejects(address, size) THEN <<>>
    ELSE IF ~lfs_file.exists THEN Fill(ZERO, size)
    ELSE LET got == LFS_fileRead(lfs_file.data, address, size)
         IN got \o Fill(ERASED, size - Len(got))

\* faulty variant: a short read is not padded
LittleFSBackend_readBuf_noPad(address, size) ==
    IF LittleFSBackend_rejects(address, size) THEN <<>>
    ELSE IF ~lfs_file.exists THEN Fill(ERASED, size)
    ELSE IF ~LFS_seek(address) THEN <<>>
    ELSE LFS_fileRead(lfs_file.data, address, size)

LittleFSBackend_readBuf(address, size) ==
    IF LittleFSBackend_rejects(address, size) THEN <<>>
    ELSE IF ~lfs_file.exists THEN Fill(ERASED, size)
    ELSE IF ~LFS_seek(address) THEN <<>>
    ELSE LET got == LFS_fileRead(lfs_file.data, address, size)
         IN got \o Fill(ERASED, size - Len(got))

LittleFSBackend_readRet(address, size) ==
    IF LittleFSBackend_rejects(address, size) THEN 0
    ELSE IF ~lfs_file.exists THEN size
    ELSE IF ~LFS_seek(address) THEN 0
    ELSE size

LittleFSBackend_read ==
    /\ backend = "LittleFSBackend"
    /\ \E address \in CallAddresses, size \in Sizes :
        last' = Call("read", address, size, <<>>,
                     LittleFSBackend_readRet(address, size), FALSE,
                     LittleFSBackend_readBuf(address, size),
                     IF LittleFSBackend_rejects(address, size) THEN {} ELSE {"fs.open"}, 0)
    /\ UNCHANGED <<driverVars, backend, wide, fresh, eepromVars, lfsVars, sdVars, sdcVars, sdfVars>>

\* the possible contents of temp after `new uint8_t[address]` and file.read(temp, address)
LittleFSBackend_temp(bytes, address) ==
    LET got == LFS_fileRead(bytes, 0, address)
    IN {got \o rest : rest \in Uninitialized(address - Len(got))}

\* what write sends to the file: the prefix (temp, or 0xFF padding), then the data
LittleFSBackend_stream(temp, hasTemp, address, buffer) ==
    (IF hasTemp /\ address > 0 THEN temp
     ELSE IF address > 0 THEN Fill(ERASED, address)
     ELSE <<>>) \o buffer

\* the file after fs_.open(filename_, FILE_WRITE) and the writes of which the
\* filesystem stores the first `room` bytes: FILE_WRITE keeps the content and
\* positions at the end
LittleFSBackend_rewrite(bytes, stream, room) ==
    File_write(bytes, Len(bytes), SubSeq(stream, 1, Min(room, Len(stream))))

\* write(address, buffer, size), which erase calls with a buffer of 0xFF and whose
\* count erase compares with size
LittleFSBackend_doWrite(op, address, buffer) ==
    LET size == Len(buffer)
        existingSize == IF lfs_file.exists THEN Len(lfs_file.data) ELSE 0
        hasTemp == existingSize > 0 /\ address > 0 /\ Heap_allocates(address)
    IN
    IF LittleFSBackend_rejects(address, size)
    THEN /\ last' = Call(op, address, size, buffer, 0, op = "erase" /\ 0 = size, <<>>, {}, 0)
         /\ UNCHANGED <<fresh, lfs_file>>
    ELSE \E opened \in BOOLEAN :
         IF ~opened
         THEN /\ last' = Call(op, address, size, buffer, 0, op = "erase" /\ 0 = size, <<>>,
                              {"fs.open"}, 0)
              /\ UNCHANGED <<fresh, lfs_file>>
         ELSE \E temp \in (IF hasTemp THEN LittleFSBackend_temp(lfs_file.data, address)
                           ELSE {<<>>}) :
              \E room \in 0..(address + size) :
              LET stream == LittleFSBackend_stream(temp, hasTemp, address, buffer)
                  written == IF room > address THEN room - address ELSE 0
              IN /\ existingSize + room <= MaxFile
                 /\ lfs_file' = FileOf(LittleFSBackend_rewrite(lfs_file.data, stream, room))
                 /\ fresh' = FALSE
                 /\ last' = Call(op, address, size, buffer, written,
                                 op = "erase" /\ written = size, <<>>,
                                 {"fs.open", "write"}, 0)

LittleFSBackend_write ==
    /\ backend = "LittleFSBackend"
    /\ \E address \in CallAddresses, size \in Sizes : \E buffer \in Buffers(size) :
        LittleFSBackend_doWrite("write", address, buffer)
    /\ UNCHANGED <<driverVars, backend, wide, eepromVars, lfs_initialized, lfs_capacity, sdVars, sdcVars,
                   sdfVars>>

LittleFSBackend_commit ==
    /\ backend = "LittleFSBackend"
    /\ last' = Call("commit", 0, 0, <<>>, 0, TRUE, <<>>, {}, 0)
    /\ UNCHANGED <<driverVars, backend, wide, fresh, eepromVars, lfsVars, sdVars, sdcVars, sdfVars>>

LittleFSBackend_erase ==
    /\ backend = "LittleFSBackend"
    /\ IF ~lfs_initialized
       THEN /\ \E address \in CallAddresses, size \in Sizes :
                last' = Call("erase", address, size, <<>>, 0, FALSE, <<>>, {}, 0)
            /\ UNCHANGED <<fresh, lfs_file>>
       ELSE \E address \in CallAddresses, size \in Sizes :
            LittleFSBackend_doWrite("erase", address, Fill(ERASED, size))
    /\ UNCHANGED <<driverVars, backend, wide, eepromVars, lfs_initialized, lfs_capacity, sdVars, sdcVars,
                   sdfVars>>

LittleFSBackend_format ==
    /\ backend = "LittleFSBackend"
    /\ IF ~lfs_initialized
       THEN /\ last' = Call("format", 0, 0, <<>>, 0, FALSE, <<>>, {}, 0)
            /\ UNCHANGED lfs_file
       ELSE /\ lfs_file' = NoFile
            /\ last' = Call("format", 0, 0, <<>>, 0, TRUE, <<>>, {"fs.quickFormat"}, 0)
    /\ UNCHANGED <<driverVars, backend, wide, fresh, eepromVars, lfs_initialized, lfs_capacity, sdVars,
                   sdcVars, sdfVars>>

\* the capacities a caller configures: the default, and one byte more
Capacities == {Capacity, Capacity + 1}

LittleFSBackend_setCapacity ==
    /\ backend = "LittleFSBackend"
    /\ \E cap \in Capacities :
        /\ lfs_capacity' = cap
        /\ last' = Call("setCapacity", 0, cap, <<>>, 0, TRUE, <<>>, {}, 0)
    /\ UNCHANGED <<driverVars, backend, wide, fresh, eepromVars, lfs_file, lfs_initialized, sdVars, sdcVars,
                   sdfVars>>

\* setCapacity(cap) of the RAM-cached SD backend: capacity_ is set, cache_ is
\* left as it is
SDCardBackend_setCapacity ==
    /\ backend = "SDCardBackend"
    /\ \E cap \in Capacities :
        /\ sdc_capacity' = cap
        /\ last' = Call("setCapacity", 0, cap, <<>>, 0, TRUE, <<>>, {}, 0)
    /\ UNCHANGED <<driverVars, backend, wide, fresh, eepromVars, lfsVars, sdVars, sdc_initialized,
                   sdc_dirty, sdc_cache, sdc_failed, sdfVars>>

\* --------------------------------------- SDCardBackend (open file handle)
\* file_.seek(pos): an SD seek beyond the end of the file fails and leaves the
\* position where it was
SD_seek(bytes, pos, target) == IF target <= Len(bytes) THEN target ELSE pos

\* PADDING written in chunks of at most sizeof(PADDING): the bytes asked for in
\* total (the loop stops when the gap is covered)
SDFile_padding(gap) == Fill(ERASED, gap)

SDCardBackendFH_init ==
    /\ backend = "SDCardBackendFH"
    /\ IF sdf_initialized
       THEN /\ last' = Call("init", 0, 0, <<>>, 0, TRUE, <<>>, {}, 0)
            /\ UNCHANGED <<sdVars, sdfVars>>
       ELSE \E mounted \in SD_beginOutcomes :
            IF ~mounted
            THEN /\ last' = Call("init", 0, 0, <<>>, 0, FALSE, <<>>, {"SD.begin"}, 0)
                 /\ UNCHANGED <<sdVars, sdfVars>>
            ELSE \E opened \in BOOLEAN :
                 /\ sd_mounted' = TRUE
                 /\ sdf_open' = opened
                 /\ sdf_initialized' = opened
                 /\ sd_file' = IF opened /\ ~sd_file.exists THEN FileOf(<<>>) ELSE sd_file
                 /\ sdf_pos' = IF opened THEN Len(sd_file.data) ELSE 0
                 /\ sd_removed' = NoFile
                 /\ last' = Call("init", 0, 0, <<>>, 0, opened, <<>>,
                                 {"SD.begin", "SD.open"}, 0)
                 /\ UNCHANGED <<sd_present, sdf_capacity>>
    /\ UNCHANGED <<driverVars, backend, wide, fresh, eepromVars, lfsVars, sdcVars>>

SDCardBackendFH_available == sdf_initialized /\ sd_present

SDCardBackendFH_rejects(address, size) == ~sdf_open \/ Sum32(address, size) > sdf_capacity

\* file_.read(buffer, size) after file_.seek(address): the bytes read, or none
\* stored when the card does not answer (the error count is then above size)
SDCardBackendFH_readBuf(address, size) ==
    IF SDCardBackendFH_rejects(address, size) THEN <<>>
    ELSE IF address >= Len(sd_file.data) THEN Fill(ERASED, size)
    ELSE IF ~sd_present THEN <<>>
    ELSE LET got == Slice(sd_file.data, address, Min(size, Len(sd_file.data) - address))
         IN got \o Fill(ERASED, size - Len(got))

SDCardBackendFH_readRet(address, size) == IF SDCardBackendFH_rejects(address, size) THEN 0 ELSE size

SDCardBackendFH_readPos(address, size) ==
    IF SDCardBackendFH_rejects(address, size) \/ address >= Len(sd_file.data) \/ ~sd_present
    THEN sdf_pos
    ELSE address + Min(size, Len(sd_file.data) - address)

SDCardBackendFH_read ==
    /\ backend = "SDCardBackendFH"
    /\ \E address \in CallAddresses, size \in Sizes :
        /\ last' = Call("read", address, size, <<>>, SDCardBackendFH_readRet(address, size), FALSE,
                        SDCardBackendFH_readBuf(address, size),
                        IF SDCardBackendFH_rejects(address, size) THEN {} ELSE {"size"}, 0)
        /\ sdf_pos' = SDCardBackendFH_readPos(address, size)
    /\ UNCHANGED <<driverVars, backend, wide, fresh, eepromVars, lfsVars, sdVars, sdcVars, sdf_initialized,
                   sdf_open, sdf_capacity>>

\* the file and the position after write's padding of the gap and its write of
\* the data, the card storing the first `room` bytes that are sent to it
SDCardBackendFH_writeFile(bytes, pos, address, buffer, room) ==
    LET fileSize == Len(bytes)
        gap == IF address > fileSize THEN address - fileSize ELSE 0
        padded == IF gap > 0
                  THEN File_write(bytes, fileSize, SubSeq(SDFile_padding(gap), 1, Min(room, gap)))
                  ELSE bytes
        posPad == IF gap > 0 THEN fileSize + Min(room, gap) ELSE pos
        posData == SD_seek(padded, posPad, address)
        left == IF room > gap THEN room - gap ELSE 0
        written == Min(left, Len(buffer))
    IN [bytes |-> File_write(padded, posData, SubSeq(buffer, 1, written)),
        pos |-> posData + written,
        written |-> written]

SDCardBackendFH_write ==
    /\ backend = "SDCardBackendFH"
    /\ \E address \in CallAddresses, size \in Sizes : \E buffer \in Buffers(size) :
        IF SDCardBackendFH_rejects(address, size)
        THEN /\ last' = Call("write", address, size, buffer, 0, FALSE, <<>>, {}, 0)
             /\ UNCHANGED <<fresh, sd_file, sd_removed, sdf_pos>>
        ELSE \E room \in SD_writeOutcomes(
                    size + (IF address > Len(sd_file.data) THEN address - Len(sd_file.data) ELSE 0)) :
             LET after == SDCardBackendFH_writeFile(sd_file.data, sdf_pos, address, buffer, room)
             IN /\ Len(after.bytes) <= MaxFile
                /\ sd_file' = FileOf(after.bytes)
                /\ sdf_pos' = after.pos
                /\ sd_removed' = NoFile
                /\ fresh' = FALSE
                /\ last' = Call("write", address, size, buffer, after.written, FALSE, <<>>,
                                {"size", "seek", "write"}, 0)
    /\ UNCHANGED <<driverVars, backend, wide, eepromVars, lfsVars, sd_present, sd_mounted, sdcVars,
                   sdf_initialized, sdf_open, sdf_capacity>>

SDCardBackendFH_commit ==
    /\ backend = "SDCardBackendFH"
    /\ last' = Call("commit", 0, 0, <<>>, 0, sdf_open, <<>>,
                    IF sdf_open THEN {"flush"} ELSE {}, 0)
    /\ UNCHANGED <<driverVars, backend, wide, fresh, eepromVars, lfsVars, sdVars, sdcVars, sdfVars>>

\* the file and the position after erase's seek and its writes of PADDING
SDCardBackendFH_eraseFile(bytes, pos, address, size, room) ==
    LET posData == SD_seek(bytes, pos, address)
        written == Min(room, size)
    IN [bytes |-> File_write(bytes, posData, SubSeq(SDFile_padding(size), 1, written)),
        pos |-> posData + written,
        written |-> written]

SDCardBackendFH_erase ==
    /\ backend = "SDCardBackendFH"
    /\ \E address \in CallAddresses, size \in Sizes :
        IF SDCardBackendFH_rejects(address, size)
        THEN /\ last' = Call("erase", address, size, <<>>, 0, FALSE, <<>>, {}, 0)
             /\ UNCHANGED <<fresh, sd_file, sd_removed, sdf_pos>>
        ELSE \E room \in SD_writeOutcomes(size) :
             LET after == SDCardBackendFH_eraseFile(sd_file.data, sdf_pos, address, size, room)
             IN /\ Len(after.bytes) <= MaxFile
                /\ sd_file' = FileOf(after.bytes)
                /\ sdf_pos' = after.pos
                /\ sd_removed' = NoFile
                /\ fresh' = FALSE
                /\ last' = Call("erase", address, size, <<>>, after.written,
                                after.written = size, <<>>, {"seek", "write"}, 0)
    /\ UNCHANGED <<driverVars, backend, wide, eepromVars, lfsVars, sd_present, sd_mounted, sdcVars,
                   sdf_initialized, sdf_open, sdf_capacity>>

SDCardBackendFH_isDirty == FALSE

SDCardBackendFH_reopen ==
    /\ backend = "SDCardBackendFH"
    /\ \E opened \in SD_openWriteOutcomes :
        /\ sdf_open' = opened
        /\ sd_file' = IF opened /\ ~sd_file.exists THEN FileOf(<<>>) ELSE sd_file
        /\ sdf_pos' = IF opened THEN Len(sd_file.data) ELSE 0
        /\ sd_removed' = NoFile
        /\ last' = Call("reopen", 0, 0, <<>>, 0, opened, <<>>, {"close", "SD.open"}, 0)
    /\ UNCHANGED <<driverVars, backend, wide, fresh, eepromVars, lfsVars, sd_present, sd_mounted, sdcVars,
                   sdf_initialized, sdf_capacity>>

\* ----------------------------------------------- TeensyOutput (waitForSerial)
\* the timeouts a caller passes
Timeouts == 0..MaxTimeout

\* a millisecond passes: millis() is a 32-bit counter
Arduino_tick ==
    /\ millis' = (millis + 1) % Word
    /\ ws_elapsed' = IF ws_pc = "waiting" THEN Min(ws_elapsed + 1, MaxTimeout) ELSE ws_elapsed
    /\ UNCHANGED <<notOutputVars, serial_connected, ws_pc, ws_timeoutMs>>

\* the host opens the USB serial port
Serial_open ==
    /\ ~serial_connected
    /\ serial_connected' = TRUE
    /\ UNCHANGED <<notOutputVars, millis, ws_pc, ws_timeoutMs, ws_elapsed>>

\* the host closes the USB serial port
Serial_close ==
    /\ serial_connected
    /\ serial_connected' = FALSE
    /\ UNCHANGED <<notOutputVars, millis, ws_pc, ws_timeoutMs, ws_elapsed>>

\* waitForSerial(timeoutMs) is called
waitForSerial_call ==
    /\ ws_pc = "idle"
    /\ \E timeoutMs \in Timeouts : ws_timeoutMs' = timeoutMs
    /\ ws_pc' = "waiting"
    /\ ws_elapsed' = 0
    /\ UNCHANGED <<notOutputVars, millis, serial_connected>>

\* the loop condition `!Serial && millis() < timeoutMs`
waitForSerial_loops == ~serial_connected /\ millis < ws_timeoutMs

\* one evaluation of the loop condition: the loop goes on, or the call returns
waitForSerial_test ==
    /\ ws_pc = "waiting"
    /\ ws_pc' = IF waitForSerial_loops THEN "waiting" ELSE "returned"
    /\ UNCHANGED <<notOutputVars, millis, serial_connected, ws_timeoutMs, ws_elapsed>>

\* the caller goes on after the return (and may call again later)
waitForSerial_done ==
    /\ ws_pc = "returned"
    /\ ws_pc' = "idle"
    /\ UNCHANGED <<notOutputVars, millis, serial_connected, ws_timeoutMs, ws_elapsed>>

\* the drivers before anything is called
OutputIdle ==
    /\ millis = 0
    /\ serial_connected = FALSE
    /\ ws_pc = "idle"
    /\ ws_timeoutMs = 0
    /\ ws_elapsed = 0

\* ------------------------------------------------------------- UsbSerial
\* the bytes of a message
FrameBytes == {ZERO, DATA}

\* the messages a caller sends: up to one byte more than the largest frame
Messages == UNION {[1..n -> FrameBytes] : n \in 0..(MaxFrame + 1)}

\* codec::cobsEncode without the delimiter: each run of non-zero bytes behind
\* a code byte that gives the distance to the next zero (runs stay far below
\* COBS_BLOCK)
RECURSIVE Cobs_blocks(_)
Cobs_blocks(data) ==
    LET run == CHOOSE k \in 0..Len(data) :
                   /\ \A i \in 1..k : data[i] # ZERO
                   /\ k < Len(data) => data[k + 1] = ZERO
    IN <<run + 1>> \o SubSeq(data, 1, run)
       \o (IF run < Len(data) THEN Cobs_blocks(SubSeq(data, run + 2, Len(data))) ELSE <<>>)

\* codec::cobsEncode(data, length, encoded): the blocks, then the 0x00 that
\* ends the frame
Cobs_encode(data) == Cobs_blocks(data) \o <<ZERO>>

\* what the decoder of the other side makes of the blocks of a frame
RECURSIVE Cobs_unblock(_)
Cobs_unblock(enc) ==
    IF enc = <<>> THEN <<>>
    ELSE LET code == enc[1]
             rest == SubSeq(enc, code + 1, Len(enc))
         IN SubSeq(enc, 2, code)
            \o (IF rest = <<>> THEN <<>> ELSE <<ZERO>> \o Cobs_unblock(rest))

\* `bytes` is one frame: no 0x00 but the one that ends it
Cobs_isFrame(bytes) ==
    /\ Len(bytes) >= 2
    /\ \A i \in 1..Len(bytes) : (bytes[i] = ZERO) <=> (i = Len(bytes))

\* the message that a frame carries
Cobs_decode(bytes) == Cobs_unblock(SubSeq(bytes, 1, Len(bytes) - 1))

UsbSerial_init ==
    /\ usb_initialized' = TRUE
    /\ usb_last' = [op |-> "init", data |-> <<>>, ok |-> TRUE]
    /\ UNCHANGED <<notUsbVars, usb_maxFrameSize, serial_out>>

\* faulty variant: an empty message is sent too
UsbSerial_sendRejects_sendsEmpty(length) ==
    ~usb_initialized \/ length > usb_maxFrameSize

\* the early returns of send
UsbSerial_sendRejects(length) ==
    ~usb_initialized \/ length = 0 \/ length > usb_maxFrameSize

UsbSerial_send ==
    /\ \E data \in Messages :
        /\ usb_last' = [op |-> "send", data |-> data, ok |-> ~UsbSerial_sendRejects(Len(data))]
        /\ IF UsbSerial_sendRejects(Len(data))
           THEN UNCHANGED serial_out
           ELSE /\ Len(serial_out) < MaxWrites
                /\ serial_out' = Append(serial_out, Cobs_encode(data))
    /\ UNCHANGED <<notUsbVars, usb_initialized, usb_maxFrameSize>>

\* the host reads what was written
Serial_hostReads ==
    /\ serial_out # <<>>
    /\ serial_out' = <<>>
    /\ usb_last' = [op |-> "hostReads", data |-> <<>>, ok |-> TRUE]
    /\ UNCHANGED <<notUsbVars, usb_initialized, usb_maxFrameSize>>

\* the configurations: UsbSerialConfig::maxFrameSize
UsbSerialConfigs == 1..MaxFrame

UsbSerialIdle ==
    /\ usb_initialized = FALSE
    /\ usb_maxFrameSize = MaxFrame
    /\ usb_last = [op |-> "none", data |-> <<>>, ok |-> FALSE]
    /\ serial_out = <<>>

\* ----------------------------------------------------- EncoderController
\* the indexes of the encoders, 1..N for the code's 0..N-1
Encoders == 1..NumEncoders

EncoderCall(op, ok, err, created, called) ==
    [op |-> op, ok |-> ok, err |-> err, created |-> created, called |-> called]

\* faulty variant: initialized_ is set whatever the hardware answered
EncoderController_initMarks_always(failed) == TRUE

\* initialized_ after the loop of init(): set when no encoder failed
EncoderController_initMarks(failed) == failed = 0

\* the encoders whose hardware init() creates, in the order of the loop: all
\* of them, or those up to the one whose init failed
EncoderController_initCreates(failed) ==
    [i \in 1..(IF failed = 0 THEN NumEncoders ELSE failed) |-> i]

\* init(): `failed` is the first encoder whose hardware init returns an error
\* (0: none does)
EncoderController_init ==
    /\ IF enc_initialized
       THEN /\ enc_last' = EncoderCall("init", TRUE, 0, <<>>, {})
            /\ UNCHANGED <<enc_initialized, enc_hw>>
       ELSE \E failed \in 0..NumEncoders :
            /\ enc_hw' = [i \in Encoders |->
                            IF failed # 0 /\ i > failed THEN enc_hw[i]
                            ELSE IF i = failed THEN "created"
                            ELSE "ready"]
            /\ enc_initialized' = EncoderController_initMarks(failed)
            /\ enc_last' = EncoderCall("init", failed = 0, failed,
                                       EncoderController_initCreates(failed), {})
    /\ UNCHANGED <<notEncVars, enc_pending, enc_callback>>

\* update(): flush() of each logic, callback_ for each event that waited
EncoderController_update ==
    /\ IF ~enc_initialized
       THEN /\ enc_last' = EncoderCall("update", TRUE, 0, <<>>, {})
            /\ UNCHANGED enc_pending
       ELSE /\ enc_pending' = [i \in Encoders |-> FALSE]
            /\ enc_last' = EncoderCall("update", TRUE, 0, <<>>,
                                       IF enc_callback THEN {i \in Encoders : enc_pending[i]}
                                       ELSE {})
    /\ UNCHANGED <<notEncVars, enc_initialized, enc_hw, enc_callback>>

EncoderController_setCallback ==
    /\ \E cb \in BOOLEAN : enc_callback' = cb
    /\ enc_last' = EncoderCall("setCallback", TRUE, 0, <<>>, {})
    /\ UNCHANGED <<notEncVars, enc_initialized, enc_hw, enc_pending>>

\* onDelta from the interrupt of an encoder whose hardware runs:
\* processDelta leaves an event in its logic
EncoderController_onDelta ==
    /\ \E i \in Encoders :
        /\ enc_hw[i] = "ready"
        /\ enc_pending' = [enc_pending EXCEPT ![i] = TRUE]
    /\ enc_last' = EncoderCall("onDelta", TRUE, 0, <<>>, {})
    /\ UNCHANGED <<notEncVars, enc_initialized, enc_hw, enc_callback>>

EncoderIdle ==
    /\ enc_initialized = FALSE
    /\ enc_hw = [i \in Encoders |-> "none"]
    /\ enc_pending = [i \in Encoders |-> FALSE]
    /\ enc_callback = FALSE
    /\ enc_last = EncoderCall("none", FALSE, 0, <<>>, {})

\* ------------------------------------------------------- ButtonController
\* the indexes of the buttons, 1..N for the code's 0..N-1; the id of a button
\* is its index, and UnknownButton is the id of none
Buttons == 1..NumButtons
UnknownButton == 0

\* ButtonDef::activeLow: the buttons of odd index are wired active-low
ButtonController_activeLow(i) == i % 2 = 1

\* the debounce times a controller is constructed with
Debounces == 0..MaxDebounce

\* currentTimeMs - last_change_[i] in uint32_t
ButtonController_elapsed(now, changed) == (now - changed + Word) % Word

\* faulty variant: every change is taken at once
ButtonController_debounced_always(elapsed) == TRUE

\* the test `currentTimeMs - last_change_[i] >= debounce_ms_`
ButtonController_debounced(elapsed) == elapsed >= btn_debounce

\* faulty variant: every change is reported as a press
ButtonController_event_pressed(pressed) == "PRESSED"

\* the event passed to callback_
ButtonController_event(pressed) == IF pressed THEN "PRESSED" ELSE "RELEASED"

\* pressed, from the level read on the pin
ButtonController_pressed(i, raw) == IF ButtonController_activeLow(i) THEN ~raw[i] ELSE raw[i]

\* update's test for button i: the level differs from the state and the
\* debounce time has passed
ButtonController_accepts(i, raw, now) ==
    /\ ButtonController_pressed(i, raw) # btn_states[i]
    /\ ButtonController_debounced(ButtonController_elapsed(now, btn_last_change[i]))

\* the events update delivers, in the order of its loop
RECURSIVE ButtonController_events(_, _, _)
ButtonController_events(i, raw, now) ==
    IF i > NumButtons THEN <<>>
    ELSE (IF ButtonController_accepts(i, raw, now) /\ btn_callback
          THEN <<[id |-> i, event |-> ButtonController_event(ButtonController_pressed(i, raw))]>>
          ELSE <<>>)
         \o ButtonController_events(i + 1, raw, now)

ButtonCall(op, time, raw, events) == [op |-> op, time |-> time, raw |-> raw, events |-> events]

NoLevels == [i \in Buttons |-> FALSE]

ButtonController_init ==
    /\ btn_initialized' = TRUE
    /\ btn_last' = ButtonCall("init", 0, NoLevels, <<>>)
    /\ UNCHANGED <<notBtnVars, btn_states, btn_last_change, btn_callback, btn_debounce,
                   btn_lastEvent>>

\* the times a caller passes: any value of the 32-bit clock (each is some
\* advance, modulo 2^32, on the time of the call before)
Times == 0..(Word - 1)

\* update(currentTimeMs) (in the older variant update() with now = millis());
\* raw are the levels on the pins
ButtonController_update ==
    /\ \E millis_now \in Times, raw \in [Buttons -> BOOLEAN] :
        IF ~btn_initialized
        THEN /\ btn_last' = ButtonCall("update", millis_now, raw, <<>>)
             /\ UNCHANGED <<btn_states, btn_last_change, btn_lastEvent>>
        ELSE LET events == ButtonController_events(1, raw, millis_now)
             IN /\ btn_states' = [i \in Buttons |->
                                    IF ButtonController_accepts(i, raw, millis_now)
                                    THEN ButtonController_pressed(i, raw)
                                    ELSE btn_states[i]]
                /\ btn_last_change' = [i \in Buttons |->
                                         IF ButtonController_accepts(i, raw, millis_now)
                                         THEN millis_now
                                         ELSE btn_last_change[i]]
                /\ btn_lastEvent' = [i \in Buttons |->
                                       IF \E k \in 1..Len(events) : events[k].id = i
                                       THEN (CHOOSE e \in {events[k] : k \in 1..Len(events)} :
                                                e.id = i).event
                                       ELSE btn_lastEvent[i]]
                /\ btn_last' = ButtonCall("update", millis_now, raw, events)
    /\ UNCHANGED <<notBtnVars, btn_initialized, btn_callback, btn_debounce>>

\* setCallback(cb), with a callback that can be called
ButtonController_setCallback ==
    /\ btn_callback' = TRUE
    /\ btn_last' = ButtonCall("setCallback", 0, NoLevels, <<>>)
    /\ UNCHANGED <<notBtnVars, btn_initialized, btn_states, btn_last_change, btn_debounce,
                   btn_lastEvent>>

\* isPressed(id)
ButtonController_isPressed(id) == IF id \in Buttons THEN btn_states[id] ELSE FALSE

ButtonIdle ==
    /\ btn_initialized = FALSE
    /\ btn_states = [i \in Buttons |-> FALSE]
    /\ btn_last_change = [i \in Buttons |-> 0]
    /\ btn_callback = FALSE
    /\ btn_debounce = MaxDebounce
    /\ btn_lastEvent = [i \in Buttons |-> "none"]
    /\ btn_last = ButtonCall("none", 0, NoLevels, <<>>)

\* ------------------------------------------------------------- GenericMux
\* the indexes of the select pins, as in the code
SelectPins == 0..(NumPins - 1)

\* channelCount(): 1 << NumPins
GenericMux_channelCount == 2 ^ NumPins

\* the channels a caller passes: the valid ones and two beyond them
Channels == 0..(GenericMux_channelCount + 1)

\* the levels the signal pin may carry when it is read
Signals == 0..1

\* faulty variant: every select pin is driven low
GenericMux_bit_low(channel, i) == FALSE

\* (channel >> i) & 0x01
GenericMux_bit(channel, i) == (channel \div (2 ^ i)) % 2 = 1

\* one operation on the hardware
Gpio(op, pin, value) == [op |-> op, pin |-> pin, value |-> value]

MuxCall(op, channel, hw, ret) == [op |-> op, channel |-> channel, hw |-> hw, ret |-> ret]

\* init(): the select pins become outputs driven low, the signal pin an input
GenericMux_init ==
    /\ mux_pins' = [i \in SelectPins |-> FALSE]
    /\ mux_current' = 0
    /\ mux_initialized' = TRUE
    /\ mux_last' = MuxCall("init", 0,
                           [i \in 1..NumPins |-> Gpio("digitalWrite", i - 1, FALSE)], 0)
    /\ UNCHANGED notMuxVars

\* the early returns of select(channel)
GenericMux_selectReturns(channel) ==
    \/ ~mux_initialized
    \/ channel >= GenericMux_channelCount
    \/ channel = mux_current

\* the hardware operations of select(channel), in order
GenericMux_selectHw(channel) ==
    IF GenericMux_selectReturns(channel) THEN <<>>
    ELSE [i \in 1..NumPins |-> Gpio("digitalWrite", i - 1, GenericMux_bit(channel, i - 1))]
         \o <<Gpio("delayMicroseconds", 0, FALSE)>>

\* the select pins after select(channel)
GenericMux_selectPins(channel) ==
    IF GenericMux_selectReturns(channel) THEN mux_pins
    ELSE [i \in SelectPins |-> GenericMux_bit(channel, i)]

\* current_channel_ after select(channel)
GenericMux_selectCurrent(channel) ==
    IF GenericMux_selectReturns(channel) THEN mux_current ELSE channel

\* select(channel)
GenericMux_select ==
    /\ \E channel \in Channels :
        /\ mux_pins' = GenericMux_selectPins(channel)
        /\ mux_current' = GenericMux_selectCurrent(channel)
        /\ mux_last' = MuxCall("select", channel, GenericMux_selectHw(channel), 0)
    /\ UNCHANGED <<notMuxVars, mux_initialized>>

\* readDigital(channel): select, then digitalRead of the signal pin
GenericMux_readDigital ==
    /\ \E channel \in Channels, signal \in Signals :
        /\ mux_pins' = GenericMux_selectPins(channel)
        /\ mux_current' = GenericMux_selectCurrent(channel)
        /\ mux_last' = MuxCall("readDigital", channel,
                               GenericMux_selectHw(channel) \o <<Gpio("digitalRead", 0, FALSE)>>,
                               signal)
    /\ UNCHANGED <<notMuxVars, mux_initialized>>

\* readAnalog(channel): select, then analogRead of the signal pin
GenericMux_readAnalog ==
    /\ \E channel \in Channels, signal \in Signals :
        /\ mux_pins' = GenericMux_selectPins(channel)
        /\ mux_current' = GenericMux_selectCurrent(channel)
        /\ mux_last' = MuxCall("readAnalog", channel,
                               GenericMux_selectHw(channel) \o <<Gpio("analogRead", 0, FALSE)>>,
                               signal)
    /\ UNCHANGED <<notMuxVars, mux_initialized>>

MuxIdle ==
    /\ mux_initialized = FALSE
    /\ mux_current = 0
    /\ mux_pins = [i \in SelectPins |-> FALSE]
    /\ mux_last = MuxCall("none", 0, <<>>, 0)

\* ---------------------------------------------------------------- UsbMidi
\* the (channel, note) pairs a caller plays
MidiChannels == 0..(MaxChannels - 1)
MidiNotes == 0..(MaxNotes - 1)
MidiKeys == [channel : MidiChannels, note : MidiNotes]

\* UsbMidiConfig::maxActiveNotes
ActiveNoteLimits == 0..MaxActive

\* an ActiveNote
ActiveNote(channel, note, active) == [channel |-> channel, note |-> note, active |-> active]

\* a message handed to usbMIDI
MidiMessage(type, channel, note) == [type |-> type, channel |-> channel, note |-> note]

MidiCall(op, channel, note, sent) == [op |-> op, channel |-> channel, note |-> note, sent |-> sent]

Slots == 1..Len(midi_active)

\* init(): active_notes_ gets max_active_notes_ slots, none active; a second
\* init() returns at once
UsbMidi_init ==
    /\ IF midi_initialized
       THEN UNCHANGED midi_active
       ELSE midi_active' = [k \in 1..midi_max |-> ActiveNote(0, 0, FALSE)]
    /\ midi_initialized' = TRUE
    /\ midi_last' = MidiCall("init", 0, 0, <<>>)
    /\ UNCHANGED <<notMidiVars, midi_max, midi_sounding>>

\* markNoteActive: the first slot that is not active, or slot 0 when all are
UsbMidi_markNoteActive(channel, note) ==
    IF \E k \in Slots : ~midi_active[k].active
    THEN LET free == CHOOSE k \in Slots :
                        /\ ~midi_active[k].active
                        /\ \A j \in 1..(k - 1) : midi_active[j].active
         IN [midi_active EXCEPT ![free] = ActiveNote(channel, note, TRUE)]
    ELSE IF midi_active # <<>>
         THEN [midi_active EXCEPT ![1] = ActiveNote(channel, note, TRUE)]
         ELSE midi_active

\* markNoteInactive: the first active slot that holds (channel, note)
UsbMidi_markNoteInactive(channel, note) ==
    LET holds(k) == /\ midi_active[k].active
                    /\ midi_active[k].channel = channel
                    /\ midi_active[k].note = note
    IN IF \E k \in Slots : holds(k)
       THEN LET found == CHOOSE k \in Slots : holds(k) /\ \A j \in 1..(k - 1) : ~holds(j)
            IN [midi_active EXCEPT ![found].active = FALSE]
       ELSE midi_active

\* sendNoteOn(channel, note, velocity)
UsbMidi_sendNoteOn ==
    /\ \E key \in MidiKeys :
        /\ midi_active' = UsbMidi_markNoteActive(key.channel, key.note)
        /\ midi_sounding' = midi_sounding \cup {key}
        /\ midi_last' = MidiCall("sendNoteOn", key.channel, key.note,
                                 <<MidiMessage("NoteOn", key.channel, key.note)>>)
    /\ UNCHANGED <<notMidiVars, midi_initialized, midi_max>>

\* sendNoteOff(channel, note, velocity)
UsbMidi_sendNoteOff ==
    /\ \E key \in MidiKeys :
        /\ midi_active' = UsbMidi_markNoteInactive(key.channel, key.note)
        /\ midi_sounding' = midi_sounding \ {key}
        /\ midi_last' = MidiCall("sendNoteOff", key.channel, key.note,
                                 <<MidiMessage("NoteOff", key.channel, key.note)>>)
    /\ UNCHANGED <<notMidiVars, midi_initialized, midi_max>>

\* the NoteOff messages of allNotesOff, in the order of the slots from slot k
RECURSIVE UsbMidi_allNotesOffSends(_)
UsbMidi_allNotesOffSends(k) ==
    IF k > Len(midi_active) THEN <<>>
    ELSE (IF midi_active[k].active
          THEN <<MidiMessage("NoteOff", midi_active[k].channel, midi_active[k].note)>>
          ELSE <<>>)
         \o UsbMidi_allNotesOffSends(k + 1)

\* allNotesOff()
UsbMidi_allNotesOff ==
    /\ midi_active' = [k \in Slots |-> [midi_active[k] EXCEPT !.active = FALSE]]
    /\ LET sent == UsbMidi_allNotesOffSends(1)
       IN /\ midi_sounding' = midi_sounding \
                                {[channel |-> sent[k].channel, note |-> sent[k].note] :
                                    k \in 1..Len(sent)}
          /\ midi_last' = MidiCall("allNotesOff", 0, 0, sent)
    /\ UNCHANGED <<notMidiVars, midi_initialized, midi_max>>

MidiIdle ==
    /\ midi_initialized = FALSE
    /\ midi_max = MaxActive
    /\ midi_active = <<>>
    /\ midi_sounding = {}
    /\ midi_last = MidiCall("none", 0, 0, <<>>)

\* ------------------------------------------------------ UsbSerial, receiving
\* the frames the host writes: the encodings of messages
HostFrames == {Cobs_encode(data) : data \in Messages}

\* the host writes a frame when the one before was read
Serial_hostWrites ==
    /\ serial_in = <<>>
    /\ \E frame \in HostFrames : serial_in' = serial_in \o frame
    /\ usb_last' = [op |-> "hostWrites", data |-> <<>>, ok |-> TRUE]
    /\ UNCHANGED <<notSerialVars, usb_initialized, usb_maxFrameSize, serial_out,
                   usb_onReceive, usb_decoder, usb_received>>

\* setOnReceive(cb), with a callback that can be called
UsbSerial_setOnReceive ==
    /\ usb_onReceive' = TRUE
    /\ usb_last' = [op |-> "setOnReceive", data |-> <<>>, ok |-> TRUE]
    /\ UNCHANGED <<notSerialVars, usb_initialized, usb_maxFrameSize, serial_out,
                   serial_in, usb_decoder, usb_received>>

\* decoder_.feed of each of `bytes` in turn, from a decoder that holds `held`:
\* a 0x00 ends a frame, whose message goes to the callback; other bytes are kept
RECURSIVE CobsDecoder_feed(_, _)
CobsDecoder_feed(held, bytes) ==
    IF bytes = <<>> THEN [held |-> held, frames |-> <<>>]
    ELSE IF bytes[1] = ZERO
         THEN LET rest == CobsDecoder_feed(<<>>, Tail(bytes))
              IN [held |-> rest.held,
                  frames |-> (IF held = <<>> THEN <<>> ELSE <<Cobs_unblock(held)>>)
                             \o rest.frames]
         ELSE CobsDecoder_feed(Append(held, bytes[1]), Tail(bytes))

\* the early return of update()
UsbSerial_updateReturns == ~usb_initialized \/ ~usb_onReceive

\* update(): while Serial.available(), read a byte and feed the decoder
UsbSerial_update ==
    /\ IF UsbSerial_updateReturns
       THEN /\ usb_received' = <<>>
            /\ UNCHANGED <<serial_in, usb_decoder>>
       ELSE LET fed == CobsDecoder_feed(usb_decoder, serial_in)
            IN /\ serial_in' = <<>>
               /\ usb_decoder' = fed.held
               /\ usb_received' = fed.frames
    /\ usb_last' = [op |-> "update", data |-> <<>>, ok |-> ~UsbSerial_updateReturns]
    /\ UNCHANGED <<notSerialVars, usb_initialized, usb_maxFrameSize, serial_out,
                   usb_onReceive>>

UsbSerialRxIdle ==
    /\ usb_onReceive = FALSE
    /\ serial_in = <<>>
    /\ usb_decoder = <<>>
    /\ usb_received = <<>>

\* ------------------------------------------------------- UsbMidi, receiving
\* the types of message usbMIDI.read() hands out; update has a case for the
\* first four
MidiCallbacks == {"ControlChange", "NoteOn", "NoteOff", "SystemExclusive"}
MidiTypes == MidiCallbacks \cup {"ProgramChange"}

\* a message arrives from the host
usbMIDI_receives ==
    /\ Len(midi_in) < MaxMidiIn
    /\ \E type \in MidiTypes : midi_in' = Append(midi_in, type)
    /\ midi_last' = MidiCall("receives", 0, 0, <<>>)
    /\ UNCHANGED <<notMidiIoVars, midi_initialized, midi_max, midi_active, midi_sounding,
                   midi_on, midi_called>>

\* setOnCC, setOnNoteOn, setOnNoteOff, setOnSysEx, with a callback that can
\* be called
UsbMidi_setOn ==
    /\ \E type \in MidiCallbacks : midi_on' = midi_on \cup {type}
    /\ midi_last' = MidiCall("setOn", 0, 0, <<>>)
    /\ UNCHANGED <<notMidiIoVars, midi_initialized, midi_max, midi_active, midi_sounding,
                   midi_in, midi_called>>

\* faulty variant: update polls whether init() was called or not
UsbMidi_updateReturns_never == FALSE

\* the early return of update()
UsbMidi_updateReturns == ~midi_initialized

\* the callbacks update() calls for the messages `types`, in order
UsbMidi_updateCalls(types) == SelectSeq(types, LAMBDA type : type \in midi_on)

\* update(): while usbMIDI.read(), the callback of the message's type
UsbMidi_update ==
    /\ IF UsbMidi_updateReturns
       THEN /\ midi_called' = <<>>
            /\ UNCHANGED midi_in
       ELSE /\ midi_in' = <<>>
            /\ midi_called' = UsbMidi_updateCalls(midi_in)
    /\ midi_last' = MidiCall("update", 0, 0, <<>>)
    /\ UNCHANGED <<notMidiIoVars, midi_initialized, midi_max, midi_active, midi_sounding,
                   midi_on>>

MidiRxIdle ==
    /\ midi_on = {}
    /\ midi_in = <<>>
    /\ midi_called = <<>>

\* ------------------------------------------------------------ the drivers
\* the drivers a main loop polls
PolledDrivers == {"ButtonController", "EncoderController", "UsbMidi", "UsbSerial"}

PollIdle == polled = "none"

DriversIdle == OutputIdle /\ UsbSerialIdle /\ EncoderIdle /\ ButtonIdle /\ MuxIdle /\ MidiIdle /\ UsbSerialRxIdle /\ MidiRxIdle /\ PollIdle

\* ------------------------------------------------------------ specification
\* what the medium may hold when the program starts: no file, an empty file, a
\* file of one data byte, or a file of data bytes longer than the capacity
InitialFiles == {NoFile} \cup {FileOf(Fill(DATA, k)) : k \in {0, 1, Capacity + 1}}

InitialArrays == [0..(EEPROM_length - 1) -> DataBytes]

Blank(file) == file.data = <<>>

InitialState ==
    /\ backend \in Backends
    /\ last = NoCall
    /\ eeprom \in (IF backend = "EEPROMBackend" THEN InitialArrays
                   ELSE {[idx \in 0..(EEPROM_length - 1) |-> ERASED]})
    /\ lfs_file \in (IF backend = "LittleFSBackend" THEN InitialFiles ELSE {NoFile})
    /\ lfs_initialized = FALSE
    /\ lfs_capacity = Capacity
    /\ sd_present \in (IF backend \in {"SDCardBackend", "SDCardBackendFH"}
                       THEN BOOLEAN ELSE {FALSE})
    /\ sd_mounted = FALSE
    /\ sd_removed = NoFile
    /\ sd_file \in (IF backend \in {"SDCardBackend", "SDCardBackendFH"}
                    THEN InitialFiles ELSE {NoFile})
    /\ sdc_initialized = FALSE
    /\ sdc_dirty = FALSE
    /\ sdc_cache = <<>>
    /\ sdc_capacity = Capacity
    /\ sdc_failed = FALSE
    /\ sdf_initialized = FALSE
    /\ sdf_open = FALSE
    /\ sdf_pos = 0
    /\ sdf_capacity = Capacity
    /\ fresh = /\ \A idx \in DOMAIN eeprom : eeprom[idx] = ERASED
               /\ Blank(lfs_file)
               /\ Blank(sd_file)

\* the caller keeps its addresses near [0, capacity())
Init == wide = FALSE /\ InitialState /\ DriversIdle

\* the caller passes any 32-bit address
InitWide == wide = TRUE /\ InitialState /\ DriversIdle

Next ==
    \/ EEPROMBackend_begin
    \/ EEPROMBackend_read
    \/ EEPROMBackend_write
    \/ EEPROMBackend_commit
    \/ EEPROMBackend_erase
    \/ LittleFSBackend_begin
    \/ LittleFSBackend_read
    \/ LittleFSBackend_write
    \/ LittleFSBackend_commit
    \/ LittleFSBackend_erase
    \/ LittleFSBackend_format
    \/ LittleFSBackend_setCapacity
    \/ SD_remove
    \/ SD_insert
    \/ SDCardBackend_begin
    \/ SDCardBackend_read
    \/ SDCardBackend_write
    \/ SDCardBackend_commit
    \/ SDCardBackend_erase
    \/ SDCardBackendFH_init
    \/ SDCardBackendFH_read
    \/ SDCardBackendFH_write
    \/ SDCardBackendFH_commit
    \/ SDCardBackendFH_erase
    \/ SDCardBackendFH_reopen

Spec == Init /\ [][Next]_vars

SpecWide == InitWide /\ [][Next]_vars

\* the RAM-cached SD backend with a caller that also changes the capacity
InitResize == Init /\ backend = "SDCardBackend"

NextResize ==
    \/ SD_remove
    \/ SD_insert
    \/ SDCardBackend_begin
    \/ SDCardBackend_read
    \/ SDCardBackend_write
    \/ SDCardBackend_commit
    \/ SDCardBackend_erase
    \/ SDCardBackend_setCapacity

SpecResize == InitResize /\ [][NextResize]_vars

\* no storage backend is configured
StorageIdle ==
    /\ backend = "none"
    /\ wide = FALSE
    /\ last = NoCall
    /\ fresh = TRUE
    /\ eeprom = [idx \in 0..(EEPROM_length - 1) |-> ERASED]
    /\ lfs_file = NoFile
    /\ lfs_initialized = FALSE
    /\ lfs_capacity = Capacity
    /\ sd_present = FALSE
    /\ sd_mounted = FALSE
    /\ sd_file = NoFile
    /\ sd_removed = NoFile
    /\ sdc_initialized = FALSE
    /\ sdc_dirty = FALSE
    /\ sdc_cache = <<>>
    /\ sdc_capacity = Capacity
    /\ sdc_failed = FALSE
    /\ sdf_initialized = FALSE
    /\ sdf_open = FALSE
    /\ sdf_pos = 0
    /\ sdf_capacity = Capacity

\* the logging set-up of TeensyOutput.hpp
InitOutput == StorageIdle /\ OutputIdle /\ UsbSerialIdle /\ EncoderIdle /\ ButtonIdle /\ MuxIdle /\ MidiIdle /\ UsbSerialRxIdle /\ MidiRxIdle /\ PollIdle

NextOutput ==
    \/ Arduino_tick
    \/ Serial_open
    \/ Serial_close
    \/ waitForSerial_call
    \/ waitForSerial_test
    \/ waitForSerial_done

SpecOutput == InitOutput /\ [][NextOutput]_vars

\* a UsbSerial transport, constructed with some configuration
InitUsbSerial ==
    /\ StorageIdle
    /\ PollIdle
    /\ MidiRxIdle
    /\ UsbSerialRxIdle
    /\ MidiIdle
    /\ MuxIdle
    /\ ButtonIdle
    /\ OutputIdle
    /\ EncoderIdle
    /\ usb_initialized = FALSE
    /\ usb_maxFrameSize \in UsbSerialConfigs
    /\ usb_last = [op |-> "none", data |-> <<>>, ok |-> FALSE]
    /\ serial_out = <<>>

NextUsbSerial ==
    \/ UsbSerial_init
    \/ UsbSerial_send
    \/ Serial_hostReads

SpecUsbSerial == InitUsbSerial /\ [][NextUsbSerial]_vars

\* an EncoderController, constructed
InitEncoder == StorageIdle /\ OutputIdle /\ UsbSerialIdle /\ EncoderIdle /\ ButtonIdle /\ MuxIdle /\ MidiIdle /\ UsbSerialRxIdle /\ MidiRxIdle /\ PollIdle

NextEncoder ==
    \/ EncoderController_init
    \/ EncoderController_update
    \/ EncoderController_setCallback
    \/ EncoderController_onDelta

SpecEncoder == InitEncoder /\ [][NextEncoder]_vars

\* a ButtonController, constructed with some debounce time
\* before init() the select pins are not driven by the program: any levels
InitMux ==
    /\ StorageIdle
    /\ PollIdle
    /\ MidiRxIdle
    /\ UsbSerialRxIdle
    /\ MidiIdle
    /\ OutputIdle
    /\ UsbSerialIdle
    /\ EncoderIdle
    /\ ButtonIdle
    /\ mux_initialized = FALSE
    /\ mux_current = 0
    /\ mux_pins \in [SelectPins -> BOOLEAN]
    /\ mux_last = MuxCall("none", 0, <<>>, 0)

NextMux == GenericMux_init \/ GenericMux_select \/ GenericMux_readDigital \/ GenericMux_readAnalog

SpecMux == InitMux /\ [][NextMux]_vars

InitMidi ==
    /\ StorageIdle
    /\ PollIdle
    /\ MidiRxIdle
    /\ UsbSerialRxIdle
    /\ OutputIdle
    /\ UsbSerialIdle
    /\ EncoderIdle
    /\ ButtonIdle
    /\ MuxIdle
    /\ midi_initialized = FALSE
    /\ midi_max \in ActiveNoteLimits
    /\ midi_active = <<>>
    /\ midi_sounding = {}
    /\ midi_last = MidiCall("none", 0, 0, <<>>)

NextMidi == UsbMidi_init \/ UsbMidi_sendNoteOn \/ UsbMidi_sendNoteOff \/ UsbMidi_allNotesOff

SpecMidi == InitMidi /\ [][NextMidi]_vars

\* one of the four polled drivers, constructed; the others are left alone
InitPolling ==
    /\ StorageIdle
    /\ OutputIdle
    /\ MuxIdle
    /\ UsbSerialRxIdle
    /\ MidiRxIdle
    /\ polled \in PolledDrivers
    /\ IF polled = "ButtonController"
       THEN /\ btn_initialized = FALSE
            /\ btn_states = [i \in Buttons |-> FALSE]
            /\ btn_last_change = [i \in Buttons |-> 0]
            /\ btn_callback = FALSE
            /\ btn_debounce \in Debounces
            /\ btn_lastEvent = [i \in Buttons |-> "none"]
            /\ btn_last = ButtonCall("none", 0, NoLevels, <<>>)
       ELSE ButtonIdle
    /\ EncoderIdle
    /\ IF polled = "UsbMidi"
       THEN /\ midi_initialized = FALSE
            /\ midi_max \in ActiveNoteLimits
            /\ midi_active = <<>>
            /\ midi_sounding = {}
            /\ midi_last = MidiCall("none", 0, 0, <<>>)
       ELSE MidiIdle
    /\ IF polled = "UsbSerial"
       THEN /\ usb_initialized = FALSE
            /\ usb_maxFrameSize \in UsbSerialConfigs
            /\ usb_last = [op |-> "none", data |-> <<>>, ok |-> FALSE]
            /\ serial_out = <<>>
       ELSE UsbSerialIdle

\* the driver's init, its update, the setting of its callbacks and the
\* arrival of its input
NextPolling ==
    \/ polled = "ButtonController" /\ ButtonController_init
    \/ polled = "ButtonController" /\ ButtonController_update
    \/ polled = "ButtonController" /\ ButtonController_setCallback
    \/ polled = "EncoderController" /\ EncoderController_init
    \/ polled = "EncoderController" /\ EncoderController_update
    \/ polled = "EncoderController" /\ EncoderController_setCallback
    \/ polled = "EncoderController" /\ EncoderController_onDelta
    \/ polled = "UsbMidi" /\ UsbMidi_init
    \/ polled = "UsbMidi" /\ UsbMidi_update
    \/ polled = "UsbMidi" /\ UsbMidi_setOn
    \/ polled = "UsbMidi" /\ usbMIDI_receives
    \/ polled = "UsbSerial" /\ UsbSerial_init
    \/ polled = "UsbSerial" /\ UsbSerial_update
    \/ polled = "UsbSerial" /\ UsbSerial_setOnReceive
    \/ polled = "UsbSerial" /\ Serial_hostWrites

SpecPolling == InitPolling /\ [][NextPolling]_vars

InitButton ==
    /\ StorageIdle
    /\ PollIdle
    /\ MidiRxIdle
    /\ UsbSerialRxIdle
    /\ MidiIdle
    /\ MuxIdle
    /\ OutputIdle
    /\ UsbSerialIdle
    /\ EncoderIdle
    /\ btn_initialized = FALSE
    /\ btn_states = [i \in Buttons |-> FALSE]
    /\ btn_last_change = [i \in Buttons |-> 0]
    /\ btn_callback = FALSE
    /\ btn_debounce \in Debounces
    /\ btn_lastEvent = [i \in Buttons |-> "none"]
    /\ btn_last = ButtonCall("none", 0, NoLevels, <<>>)

NextButton ==
    \/ ButtonController_init
    \/ ButtonController_update
    \/ ButtonController_setCallback

SpecButton == InitButton /\ [][NextButton]_vars

\* ------------------------------------------------- the contract, per backend
\* begin()/init() has succeeded
Initialized ==
    CASE backend = "EEPROMBackend" -> TRUE
      [] backend = "LittleFSBackend" -> lfs_initialized
      [] backend = "SDCardBackend" -> sdc_initialized
      [] backend = "SDCardBackendFH" -> sdf_initialized

\* capacity()
CapacityOf ==
    CASE backend = "EEPROMBackend" -> EEPROMBackend_capacity
      [] backend = "LittleFSBackend" -> lfs_capacity
      [] backend = "SDCardBackend" -> sdc_capacity
      [] backend = "SDCardBackendFH" -> sdf_capacity

\* what read(address, buffer, size) returns and stores in buffer, in this state
ReadRet(address, size) ==
    CASE backend = "EEPROMBackend" -> EEPROMBackend_readRet(address, size)
      [] backend = "LittleFSBackend" -> LittleFSBackend_readRet(address, size)
      [] backend = "SDCardBackend" -> SDCardBackend_readRet(address, size)
      [] backend = "SDCardBackendFH" -> SDCardBackendFH_readRet(address, size)

ReadBuf(address, size) ==
    CASE backend = "EEPROMBackend" -> EEPROMBackend_readBuf(address, size)
      [] backend = "LittleFSBackend" -> LittleFSBackend_readBuf(address, size)
      [] backend = "SDCardBackend" -> SDCardBackend_readBuf(address, size)
      [] backend = "SDCardBackendFH" -> SDCardBackendFH_readBuf(address, size)

\* the medium, the cache and the flags a call may change
Stored == <<eeprom, lfs_file, sd_file, sdc_cache, sdc_dirty>>

\* ------------------------------------------------------------------- claims
\* the call of the step is inside the address space, as the code computes it
InRange(address, size) == Sum32(address, size) <= CapacityOf

\* C1: on an initialized backend, a write(a, data, n) with a+n <= capacity()
\* that is accepted (returns n) and is followed immediately by read(a, buf, n)
\* makes that read return n and buf equal to data, for every backend.
C1_WriteThenRead ==
    (/\ last.op = "write"
     /\ Initialized
     /\ last.a + last.n <= CapacityOf
     /\ last.ret = last.n)
    => /\ ReadRet(last.a, last.n) = last.n
       /\ ReadBuf(last.a, last.n) = last.data

\* C2: for every backend, a read, write or erase with address + size >
\* capacity() fails (read and write return 0, erase returns false) and changes
\* neither the medium, the cache, the dirty flag nor what any read returns.
C2_OutOfRangeRejected ==
    [][(/\ last'.op \in {"read", "write", "erase"}
        /\ ~InRange(last'.a, last'.n))
       => /\ IF last'.op = "erase" THEN ~last'.ok ELSE last'.ret = 0
          /\ Stored' = Stored
          /\ \A address \in Addresses, size \in Sizes :
                ReadBuf(address, size)' = ReadBuf(address, size)]_vars

\* the medium answers the calls of the backend: the file handle of the
\* file-handle SD backend is open (no reopen() has failed since init())
HandleOpen == backend = "SDCardBackendFH" => sdf_open

C4_WritePreservesOutside ==
    [][(/\ backend = "SDCardBackend"
        /\ last'.op \in {"write", "erase"}
        /\ ~SDCardBackend_rejects(last'.a, last'.n))
       => \A x \in 0..(sdc_capacity - 1) :
            (x < last'.a \/ x >= last'.a + last'.n)
            => /\ SDCardBackend_readRet(x, 1)' = 1
               /\ SDCardBackend_readBuf(x, 1)' = SDCardBackend_readBuf(x, 1)]_vars

C4_Witness ==
    /\ backend = "SDCardBackend"
    /\ last.op = "write" /\ last.ret = last.n /\ last.n > 0
    /\ last.a > 0
    /\ Len(sdc_cache) = last.a + last.n
    /\ sdc_cache[1] = ERASED

\* C5: on the RAM-cached SD backend, isDirty() is false until begin() has
\* succeeded and right after it, becomes true exactly at an accepted write or
\* erase, stays true across every other call and every failed commit, and
\* becomes false only through a commit() that returns true; a rejected write
\* or erase does not change it.
C5_DirtyFlag ==
    [][backend = "SDCardBackend"
       => /\ ~sdc_initialized => ~sdc_dirty
          /\ (~sdc_initialized /\ sdc_initialized') => ~sdc_dirty'
          /\ last'.op \in {"write", "erase"}
                => IF SDCardBackend_rejects(last'.a, last'.n)
                   THEN sdc_dirty' = sdc_dirty
                   ELSE sdc_dirty'
          /\ (~sdc_dirty /\ sdc_dirty') => last'.op \in {"write", "erase"}
          /\ (sdc_dirty /\ ~sdc_dirty') => (last'.op = "commit" /\ last'.ok)
          /\ (last'.op = "commit" /\ last'.ok) => ~sdc_dirty']_vars

C5_Witness ==
    /\ backend = "SDCardBackend"
    /\ last.op = "commit" /\ ~last.ok /\ "write" \in last.io
    /\ sdc_dirty

\* C6: on the RAM-cached SD backend, commit() called while isDirty() is false
\* returns true, makes no call on the card and leaves the file, the cache and
\* the dirty flag unchanged.
C6_CleanCommitNoOp ==
    [][(/\ backend = "SDCardBackend"
        /\ last'.op = "commit"
        /\ ~SDCardBackend_isDirty)
       => /\ last'.ok
          /\ last'.io = {}
          /\ sd_file' = sd_file
          /\ sdc_cache' = sdc_cache
          /\ sdc_dirty' = sdc_dirty]_vars

C6_Witness ==
    /\ backend = "SDCardBackend"
    /\ last.op = "commit" /\ last.ok /\ last.io = {}
    /\ sdc_initialized /\ ~sdc_dirty /\ ~fresh
    /\ sd_file.exists /\ sd_file.data = sdc_cache
    /\ \E i \in 1..Len(sdc_cache) : sdc_cache[i] = ERASED

\* C7: on the RAM-cached SD backend, a commit() called while dirty that
\* returns true leaves the file with exactly the length and the bytes of the
\* cache (older content beyond the cache length is gone) and isDirty() false.
C7_CommitWritesCache ==
    [][(/\ backend = "SDCardBackend"
        /\ last'.op = "commit"
        /\ SDCardBackend_isDirty
        /\ last'.ok)
       => /\ sd_file'.exists
          /\ sd_file'.data = sdc_cache'
          /\ sdc_cache' = sdc_cache
          /\ ~sdc_dirty']_vars

C7_Witness ==
    /\ backend = "SDCardBackend"
    /\ last.op = "commit" /\ last.ok /\ "truncate" \in last.io
    /\ sd_file.data = sdc_cache
    /\ Len(sdc_cache) = sdc_capacity

\* C8: on the RAM-cached SD backend, a commit() that fails (the file cannot
\* be opened, or fewer bytes are written than the cache holds) returns false
\* and leaves isDirty() true and the cache unchanged; a commit() made while
\* the flag is set (so every later one, until one succeeds) is not skipped
\* and, when the card accepts the open and the full write, returns true, makes
\* the file equal to the cache and clears the flag.
C8_FailedCommitRetries ==
    [][(backend = "SDCardBackend" /\ last'.op = "commit")
       => /\ ~last'.ok
             => /\ sdc_dirty /\ sdc_dirty'
                /\ sdc_cache' = sdc_cache
                /\ \/ last'.io = {"SD.open"}
                   \/ last'.ret < Len(sdc_cache)
          /\ sdc_dirty
             => /\ last'.io # {}
                /\ ("write" \in last'.io /\ last'.ret = Len(sdc_cache))
                      => /\ last'.ok
                         /\ sd_file' = FileOf(sdc_cache)
                         /\ sdc_cache' = sdc_cache
                         /\ ~sdc_dirty']_vars

C8_Witness ==
    /\ backend = "SDCardBackend"
    /\ sdc_failed
    /\ last.op = "commit" /\ last.ok /\ "write" \in last.io
    /\ sd_file = FileOf(sdc_cache) /\ ~sdc_dirty

\* C9: for the LittleFS and RAM-cached SD backends, begin() after a begin()
\* that returned true returns true without mounting or loading again and
\* leaves file, cache and dirty flag unchanged, so uncommitted writes survive.
C9_BeginIdempotent ==
    [][(/\ backend \in {"LittleFSBackend", "SDCardBackend"}
        /\ last'.op = "begin"
        /\ Initialized)
       => /\ last'.ok
          /\ last'.io = {}
          /\ Initialized'
          /\ Stored' = Stored]_vars

C9_Witness ==
    /\ backend = "SDCardBackend"
    /\ last.op = "begin" /\ last.ok /\ last.io = {}
    /\ sdc_dirty /\ sdc_cache # <<>>
    /\ sd_file.data # sdc_cache

\* C10: for the LittleFS and both SD backends, while the backend is not
\* initialized every call is a failing no-op: read and write return 0, erase
\* and commit return false, and none touches the medium, the cache or the
\* dirty flag.
C10_UninitializedFails ==
    [][(/\ backend \in {"LittleFSBackend", "SDCardBackend", "SDCardBackendFH"}
        /\ ~Initialized
        /\ last'.op \in {"read", "write", "erase", "commit"})
       => /\ IF last'.op \in {"read", "write"} THEN last'.ret = 0 ELSE ~last'.ok
          /\ last'.io = {}
          /\ Stored' = Stored]_vars

\* ------------------------------------------------------------- C11 .. C20
EEPROMBackend_available == TRUE

\* available()
Available ==
    CASE backend = "EEPROMBackend" -> EEPROMBackend_available
      [] backend = "LittleFSBackend" -> LittleFSBackend_available
      [] backend = "SDCardBackend" -> SDCardBackend_available
      [] backend = "SDCardBackendFH" -> SDCardBackendFH_available

\* C11: for the SD backends, available() is true exactly when the backend is
\* initialized and the card is in the slot at the time of the call: false after
\* the card is removed, true again after it is put back.
C11_AvailableTracksCard ==
    backend \in {"SDCardBackend", "SDCardBackendFH"}
    => (Available <=> (Initialized /\ sd_present))

\* C12: on the LittleFS backend, a write(a, data, n) that gets past the
\* capacity check and fails part-way (returns less than n) leaves every byte
\* outside [a, a+n) reading as it did before the call.
C12_FailedWriteKeepsData ==
    [][(/\ backend = "LittleFSBackend"
        /\ last'.op = "write"
        /\ ~LittleFSBackend_rejects(last'.a, last'.n)
        /\ last'.ret < last'.n)
       => \A x \in 0..(lfs_capacity - 1) :
            (x < last'.a \/ x >= last'.a + last'.n)
            => LittleFSBackend_readBuf(x, 1)' = LittleFSBackend_readBuf(x, 1)]_vars

\* the length of the LittleFS file (0 when there is none)
LittleFSBackend_fileSize == IF lfs_file.exists THEN Len(lfs_file.data) ELSE 0

\* C13: on the LittleFS backend, after a successful write(a, data, n) onto a
\* file of prior length L, every address x < a reads as before if x < L and
\* reads 0xFF if L <= x < a, for every L (also 0 < L < a).  Successful: the
\* call returns n, with n >= 1 so that the count tells success from failure.
C13_WriteKeepsPrefix ==
    [][(/\ backend = "LittleFSBackend"
        /\ last'.op = "write"
        /\ ~LittleFSBackend_rejects(last'.a, last'.n)
        /\ last'.n > 0
        /\ last'.ret = last'.n)
       => \A x \in 0..(last'.a - 1) :
            LittleFSBackend_readBuf(x, 1)' =
                IF x < LittleFSBackend_fileSize
                THEN LittleFSBackend_readBuf(x, 1) ELSE <<ERASED>>]_vars

\* C14: on the LittleFS backend, after a successful write(a, data, n) the file
\* is exactly a+n bytes long, and every in-range address from a+n on reads
\* 0xFF whatever the file held there before (successful as for C13).
C14_WriteDropsTail ==
    [][(/\ backend = "LittleFSBackend"
        /\ last'.op = "write"
        /\ ~LittleFSBackend_rejects(last'.a, last'.n)
        /\ last'.n > 0
        /\ last'.ret = last'.n)
       => /\ lfs_file'.exists
          /\ Len(lfs_file'.data) = last'.a + last'.n
          /\ \A x \in (last'.a + last'.n)..(lfs_capacity - 1) :
                LittleFSBackend_readBuf(x, 1)' = <<ERASED>>]_vars

\* C15: on the RAM-cached SD backend, an accepted write(a, data, n) with a
\* greater than the cache length len grows the cache to a+n, leaves bytes
\* [0, len) unchanged, makes every byte of [len, a) 0xFF and bytes [a, a+n)
\* equal to data, and a read of any of these addresses returns that byte.
C15_WriteBeyondCacheFillsGap ==
    [][(/\ backend = "SDCardBackend"
        /\ last'.op = "write"
        /\ ~SDCardBackend_rejects(last'.a, last'.n)
        /\ last'.a > Len(sdc_cache))
       => /\ last'.ret = last'.n
          /\ Len(sdc_cache') = last'.a + last'.n
          /\ \A i \in 1..Len(sdc_cache) : sdc_cache'[i] = sdc_cache[i]
          /\ \A i \in (Len(sdc_cache) + 1)..last'.a : sdc_cache'[i] = ERASED
          /\ \A i \in 1..last'.n : sdc_cache'[last'.a + i] = last'.data[i]
          /\ \A x \in 0..(last'.a + last'.n - 1) :
                /\ SDCardBackend_readRet(x, 1)' = 1
                /\ SDCardBackend_readBuf(x, 1)' = <<sdc_cache'[x + 1]>>]_vars

C15_Witness ==
    /\ backend = "SDCardBackend"
    /\ ~sd_file.exists
    /\ last.op = "write" /\ last.a >= 1 /\ last.n = 1 /\ last.ret = 1
    /\ last.data = <<DATA>>
    /\ sdc_cache = Fill(ERASED, last.a) \o <<DATA>>

\* what a call may change, for the backend in use: the register array, the
\* file, or the cache with its dirty flag and the file behind it
Medium ==
    CASE backend = "EEPROMBackend" -> eeprom
      [] backend = "LittleFSBackend" -> lfs_file
      [] backend = "SDCardBackend" -> <<sdc_cache, sdc_dirty, sd_file>>
      [] backend = "SDCardBackendFH" -> sd_file

\* the outcomes write(address, buffer, size) can have in this state: what it
\* leaves in Medium and the count it returns
EEPROMBackend_writeOutcomes(address, buffer) ==
    IF Sum32(address, Len(buffer)) > EEPROMBackend_capacity
    THEN {[medium |-> eeprom, ret |-> 0]}
    ELSE {[medium |-> EEPROM_update(eeprom, address, buffer), ret |-> Len(buffer)]}

LittleFSBackend_writeOutcomes(address, buffer) ==
    LET size == Len(buffer)
        hasTemp == LittleFSBackend_fileSize > 0 /\ address > 0 /\ Heap_allocates(address)
        temps == IF hasTemp THEN LittleFSBackend_temp(lfs_file.data, address) ELSE {<<>>}
    IN IF LittleFSBackend_rejects(address, size)
       THEN {[medium |-> lfs_file, ret |-> 0]}
       ELSE {[medium |-> lfs_file, ret |-> 0]} \cup
            {[medium |-> FileOf(LittleFSBackend_rewrite(lfs_file.data,
                            LittleFSBackend_stream(temp, hasTemp, address, buffer), room)),
              ret |-> IF room > address THEN room - address ELSE 0] :
                temp \in temps, room \in 0..(address + size)}

SDCardBackend_writeOutcomes(address, buffer) ==
    IF SDCardBackend_rejects(address, Len(buffer))
    THEN {[medium |-> <<sdc_cache, sdc_dirty, sd_file>>, ret |-> 0]}
    ELSE {[medium |-> <<cache, TRUE, sd_file>>, ret |-> Len(buffer)] :
            cache \in SDCardBackend_writeCaches(sdc_cache, address, buffer)}

SDCardBackendFH_writeOutcomes(address, buffer) ==
    LET size == Len(buffer)
        gap == IF address > Len(sd_file.data) THEN address - Len(sd_file.data) ELSE 0
    IN IF SDCardBackendFH_rejects(address, size)
       THEN {[medium |-> sd_file, ret |-> 0]}
       ELSE {LET after == SDCardBackendFH_writeFile(sd_file.data, sdf_pos, address, buffer, room)
             IN [medium |-> FileOf(after.bytes), ret |-> after.written] :
                room \in SD_writeOutcomes(size + gap)}

WriteOutcomes(address, buffer) ==
    CASE backend = "EEPROMBackend" -> EEPROMBackend_writeOutcomes(address, buffer)
      [] backend = "LittleFSBackend" -> LittleFSBackend_writeOutcomes(address, buffer)
      [] backend = "SDCardBackend" -> SDCardBackend_writeOutcomes(address, buffer)
      [] backend = "SDCardBackendFH" -> SDCardBackendFH_writeOutcomes(address, buffer)

\* C16: for every backend and every reachable state, erase(a, n) does what
\* write(a, buf, n) with n bytes of 0xFF in buf does in that state: it leaves
\* the same persisted content, cache and dirty flag, and returns true exactly
\* when that write returns n (n >= 1, so that the count tells success from
\* failure), also for a region that starts beyond the end of the file or cache.
C16_EraseIsWriteOfErased ==
    [][(last'.op = "erase" /\ last'.n > 0)
       => \E o \in WriteOutcomes(last'.a, Fill(ERASED, last'.n)) :
            /\ Medium' = o.medium
            /\ last'.ok <=> (o.ret = last'.n)]_vars

\* C17: the capacity rule is about the true sum: a read, write or erase whose
\* address + size exceeds capacity() is rejected (read and write return 0,
\* erase returns false, nothing is changed) also when the 32-bit sum the code
\* computes has wrapped around to a value <= capacity().
C17_TrueSumRejected ==
    [][(/\ last'.op \in {"read", "write", "erase"}
        /\ last'.a + last'.n > CapacityOf
        /\ Sum32(last'.a, last'.n) <= CapacityOf)
       => /\ IF last'.op = "erase" THEN ~last'.ok ELSE last'.ret = 0
          /\ last'.buf = <<>>
          /\ Medium' = Medium]_vars

C19_ImmediateWrite ==
    [][backend = "EEPROMBackend"
       => /\ last'.op = "commit" => (last'.ok /\ eeprom' = eeprom)
          /\ ~EEPROMBackend_isDirty
          /\ ~EEPROMBackend_isDirty'
          /\ \A address \in Addresses, size \in Sizes :
                (/\ last'.op = "write"
                 /\ last'.a = address /\ last'.n = size
                 /\ address + size <= EEPROMBackend_capacity)
                => /\ last'.ret = size
                   /\ EEPROMBackend_readRet(address, size)' = size
                   /\ EEPROMBackend_readBuf(address, size)' = last'.data]_vars

C19_Witness ==
    /\ backend = "EEPROMBackend"
    /\ last.op = "write" /\ last.n = MaxSize /\ last.ret = MaxSize
    /\ last.phys = MaxSize
    /\ EEPROMBackend_readBuf(last.a, last.n) = last.data
    /\ ~EEPROMBackend_isDirty

\* the bytes of the register array that differ between two of its states
EEPROM_changed(before, after) == {idx \in DOMAIN before : before[idx] # after[idx]}

\* C20: on the EEPROM backend, an accepted write or erase writes physically
\* just the bytes of the region whose value changes: as many physical writes
\* as bytes of the array that differ afterwards, none when the region already
\* holds the values (the same write again, the erase of a region of 0xFF).
C20_WriteIfChanged ==
    [][(/\ backend = "EEPROMBackend"
        /\ last'.op \in {"write", "erase"}
        /\ last'.a + last'.n <= EEPROMBackend_capacity)
       => /\ last'.phys = Cardinality(EEPROM_changed(eeprom, eeprom'))
          /\ \A idx \in EEPROM_changed(eeprom, eeprom') :
                idx >= last'.a /\ idx < last'.a + last'.n
          /\ EEPROM_physical(eeprom', last'.a,
                             IF last'.op = "erase" THEN Fill(ERASED, last'.n)
                             ELSE last'.data) = 0
          /\ (last'.op = "erase" /\ \A i \in 0..(last'.n - 1) : eeprom[last'.a + i] = ERASED)
                => last'.phys = 0]_vars

C20_Witness ==
    /\ backend = "EEPROMBackend"
    /\ last.op = "write" /\ last.n = 2 /\ last.ret = 2
    /\ last.phys = 1
    /\ last.data = <<DATA, DATA>>

\* ------------------------------------------------------------- C21 .. C30
\* C21: on the EEPROM backend, an accepted write(a, data, n) or erase(a, n)
\* changes only the bytes at addresses a .. a+n-1 of the array (to the data,
\* or to 0xFF); every other byte keeps its value.
C21_StoreTouchesRegionOnly ==
    [][(/\ backend = "EEPROMBackend"
        /\ last'.op \in {"write", "erase"}
        /\ last'.a + last'.n <= EEPROMBackend_capacity)
       => /\ IF last'.op = "erase" THEN last'.ok ELSE last'.ret = last'.n
          /\ \A idx \in DOMAIN eeprom :
                IF idx >= last'.a /\ idx < last'.a + last'.n
                THEN eeprom'[idx] = IF last'.op = "erase" THEN ERASED
                                    ELSE last'.data[idx - last'.a + 1]
                ELSE eeprom'[idx] = eeprom[idx]]_vars

C21_Witness ==
    /\ backend = "EEPROMBackend"
    /\ last.op = "erase" /\ last.n = 1 /\ last.ok /\ last.phys = 1
    /\ eeprom[last.a] = ERASED
    /\ \A idx \in DOMAIN eeprom : idx # last.a => eeprom[idx] = DATA


\* the byte at `address` of the file on the card that was pulled out, as read
\* gave it before the card went: the file's byte, 0xFF at and above its length
SD_removedByte(address) ==
    IF address < Len(sd_removed.data) THEN sd_removed.data[address + 1] ELSE ERASED

\* C22: on the SD backend, a media swap followed by reopen() discards no
\* in-memory state: the removal of the card, the insertion of a card and
\* reopen() leave the cache content, the cache length and the dirty flag as
\* they were, and after a reopen() that succeeds every in-range read still
\* returns the bytes held (written or loaded) before the card was pulled out.
C22_ReopenKeepsWrites ==
    [][(/\ backend \in {"SDCardBackend", "SDCardBackendFH"}
        /\ last'.op \in {"remove", "insert", "reopen"})
       => /\ sdc_cache' = sdc_cache
          /\ sdc_dirty' = sdc_dirty
          /\ (last'.op = "reopen" /\ last'.ok /\ sd_removed.exists)
             => \A address \in 0..(CapacityOf - 1) :
                    /\ ReadRet(address, 1)' = 1
                    /\ ReadBuf(address, 1)' = <<SD_removedByte(address)>>]_vars


\* C23: on the LittleFS backend a begin() that fails to mount leaves the
\* backend uninitialized; while it is uninitialized, available() is false and
\* every read and write returns 0, every erase and format returns false and
\* the file is not touched, whatever the call, until a begin() mounts; a
\* begin() that mounts makes the backend available and its in-range reads
\* return their size.
C23_FailedMountStaysUnavailable ==
    [][backend = "LittleFSBackend"
       => /\ (last'.op = "begin" /\ ~lfs_initialized)
             => (lfs_initialized' <=> last'.ok)
          /\ (last'.op # "begin" /\ ~lfs_initialized)
             => /\ ~lfs_initialized'
                /\ ~Available'
                /\ lfs_file' = lfs_file
                /\ last'.op \in {"read", "write"} => (last'.ret = 0 /\ last'.buf = <<>>)
                /\ last'.op \in {"erase", "format"} => ~last'.ok
          /\ (last'.op = "begin" /\ last'.ok)
             => /\ Available'
                /\ \A address \in Addresses, size \in Sizes :
                       address + size <= lfs_capacity
                       => ReadRet(address, size)' = size]_vars

C23_Witness ==
    /\ backend = "LittleFSBackend"
    /\ last.op = "begin" /\ ~last.ok /\ "fs.begin" \in last.io
    /\ ~lfs_initialized /\ ~Available
    /\ lfs_file.exists


C25_EraseCapacityRule ==
    [][(/\ backend = "LittleFSBackend"
        /\ lfs_initialized
        /\ last'.op = "erase")
       => /\ last'.a + last'.n > lfs_capacity => ~last'.ok
          /\ \A address \in Addresses, size \in Sizes :
                (last'.a = address /\ last'.n = size /\ last'.ok)
                => /\ ReadRet(address, size)' = size
                   /\ ReadBuf(address, size)' = Fill(ERASED, size)]_vars


\* C26: waitForSerial(timeoutMs) returns only when Serial is connected or at
\* least timeoutMs milliseconds have passed since the call began, whatever
\* millis() was when it was called.
C26_WaitsUntilTimeout ==
    [][(ws_pc = "waiting" /\ ws_pc' = "returned")
       => (serial_connected \/ ws_elapsed >= ws_timeoutMs)]_vars


\* C27: UsbSerial::send(data, length) hands to Serial exactly one COBS frame,
\* which carries data, when the transport is initialized and
\* 1 <= length <= maxFrameSize; when the transport is not initialized, length
\* is 0 or length > maxFrameSize it writes no byte to Serial and changes no state.
C27_SendOneFrameOrNothing ==
    [][usb_last'.op = "send"
       => LET length == Len(usb_last'.data)
          IN /\ usb_initialized' = usb_initialized
             /\ usb_maxFrameSize' = usb_maxFrameSize
             /\ IF usb_initialized /\ 1 <= length /\ length <= usb_maxFrameSize
                THEN /\ Len(serial_out') = Len(serial_out) + 1
                     /\ SubSeq(serial_out', 1, Len(serial_out)) = serial_out
                     /\ Cobs_isFrame(serial_out'[Len(serial_out')])
                     /\ Cobs_decode(serial_out'[Len(serial_out')]) = usb_last'.data
                ELSE serial_out' = serial_out]_vars

\* a message with a zero byte in it went out, after an earlier one
C27_Witness ==
    /\ usb_initialized
    /\ usb_last.op = "send" /\ usb_last.ok
    /\ usb_last.data = <<DATA, ZERO>>
    /\ Len(serial_out) = 2
    /\ serial_out[2] = <<2, DATA, 1, ZERO>>


\* C28: EncoderController::init() returns ok and sets initialized exactly
\* when the hardware init of all N encoders succeeded; when encoder i fails it
\* returns that error and the controller stays uninitialized, and update()
\* then invokes no callback; an init() on the uninitialized controller starts
\* again from the first encoder; once init() has succeeded every further
\* init() returns ok and creates and initializes no hardware.
C28_InitAllOrNothing ==
    [][/\ (enc_last'.op = "init" /\ ~enc_initialized)
          => /\ enc_last'.ok <=> (\A i \in Encoders : enc_hw'[i] = "ready")
             /\ enc_initialized' <=> enc_last'.ok
             /\ ~enc_last'.ok => (enc_last'.err \in Encoders
                                  /\ enc_hw'[enc_last'.err] # "ready")
             /\ Len(enc_last'.created) >= 1
             /\ \A k \in 1..Len(enc_last'.created) : enc_last'.created[k] = k
             /\ Len(enc_last'.created) = IF enc_last'.ok THEN NumEncoders ELSE enc_last'.err
       /\ (enc_last'.op = "init" /\ enc_initialized)
          => /\ enc_last'.ok
             /\ enc_last'.created = <<>>
             /\ enc_hw' = enc_hw
             /\ enc_initialized'
       /\ (enc_last'.op = "update" /\ ~enc_initialized)
          => /\ enc_last'.called = {}
             /\ enc_pending' = enc_pending
       /\ enc_last'.op # "init" => enc_initialized' = enc_initialized]_vars

\* the second encoder failed, the first one runs and has an event waiting, a
\* callback is set, and update() was called
C28_Witness ==
    /\ ~enc_initialized
    /\ enc_hw[1] = "ready" /\ enc_hw[NumEncoders] = "created"
    /\ enc_pending[1]
    /\ enc_callback
    /\ enc_last.op = "update" /\ enc_last.called = {}


\* C29: on the RAM-cached SD backend, read(a, buf, n) changes no state and
\* does not touch the card, whatever a and n: the cache content, the cache
\* length and the dirty flag are after the call what they were before it, the
\* file on the card is as it was, and no call of the SD library is made.
C29_ReadIsPure ==
    [][(backend = "SDCardBackend" /\ last'.op = "read")
       => /\ sdc_cache' = sdc_cache
          /\ Len(sdc_cache') = Len(sdc_cache)
          /\ sdc_dirty' = sdc_dirty
          /\ sdc_initialized' = sdc_initialized
          /\ sdc_capacity' = sdc_capacity
          /\ sd_file' = sd_file
          /\ sd_mounted' = sd_mounted
          /\ last'.io = {}]_vars

\* a read that ends beyond the cache, of unsaved data, with the card out
C29_Witness ==
    /\ backend = "SDCardBackend"
    /\ sdc_initialized /\ sdc_dirty /\ ~sd_present
    /\ Len(sdc_cache) = 1
    /\ last.op = "read" /\ last.a = 0 /\ last.n = 2 /\ last.ret = 2
    /\ last.buf = <<sdc_cache[1], ERASED>>


\* a cache that is not dirty holds the first min(file length, capacity) bytes
\* of the file on the card (no bytes when there is no file)
SDCardBackend_cleanMatchesFile ==
    (sdc_initialized /\ ~sdc_dirty)
    => sdc_cache = SubSeq(sd_file.data, 1, Min(Len(sd_file.data), sdc_capacity))

C31_CacheWithinCapacity ==
    backend = "SDCardBackend"
    => /\ Len(sdc_cache) <= sdc_capacity
       /\ (last.op = "commit" /\ last.ok /\ "write" \in last.io)
          => Len(sd_file.data) <= sdc_capacity
       /\ sdc_initialized
          => \A x \in 0..(Len(sdc_cache) - 1) :
                /\ SDCardBackend_readRet(x, 1) = 1
                /\ SDCardBackend_readBuf(x, 1) = <<sdc_cache[x + 1]>>


\* C32: on the file-handle SD backend an open file handle implies
\* initialized, in every reachable state (also after reopen() following a
\* failed init()), so that read, write and erase succeed only after init()
\* has returned ok, and no write succeeds while available() is false with the
\* card present.
C32_OpenHandleImpliesInitialized ==
    backend = "SDCardBackendFH"
    => /\ sdf_open => sdf_initialized
       /\ (last.op \in {"read", "write"} /\ last.n > 0 /\ last.ret = last.n) => sdf_initialized
       /\ (last.op = "erase" /\ last.ok) => sdf_initialized
       /\ (last.op = "write" /\ last.n > 0 /\ last.ret = last.n /\ sd_present)
          => SDCardBackendFH_available


\* the state of each button is what the last event delivered for it says
ButtonController_eventsMatchStates ==
    \A i \in Buttons : btn_states[i] <=> (btn_lastEvent[i] = "PRESSED")

\* C33: for a ButtonController with distinct ids whose callback is set, the
\* events delivered for each button alternate PRESSED, RELEASED, PRESSED, ...
\* starting with PRESSED, exactly one event is delivered per accepted change
\* of state, and after every update isPressed(id) is true exactly when the
\* last event delivered for id was PRESSED (false when none was delivered or
\* the id is unknown).
C33_EventsAlternate ==
    [][(/\ btn_last'.op = "update"
        /\ btn_initialized
        /\ btn_callback
        /\ ButtonController_eventsMatchStates)
       => /\ \A i \in Buttons :
               LET delivered == {k \in 1..Len(btn_last'.events) : btn_last'.events[k].id = i}
               IN /\ Cardinality(delivered) = IF btn_states'[i] # btn_states[i] THEN 1 ELSE 0
                  /\ \A k \in delivered :
                        btn_last'.events[k].event =
                            IF btn_lastEvent[i] = "PRESSED" THEN "RELEASED" ELSE "PRESSED"
          /\ ButtonController_eventsMatchStates'
          /\ \A id \in Buttons \cup {UnknownButton} :
                ButtonController_isPressed(id)'
                    <=> (id \in Buttons /\ btn_lastEvent'[id] = "PRESSED")]_vars

\* one update delivered the release of one button and the press of another
C33_Witness ==
    /\ btn_initialized /\ btn_callback
    /\ btn_last.op = "update"
    /\ Len(btn_last.events) = 2
    /\ btn_last.events[1] = [id |-> 1, event |-> "RELEASED"]
    /\ btn_last.events[2] = [id |-> 2, event |-> "PRESSED"]
    /\ ~ButtonController_isPressed(1) /\ ButtonController_isPressed(2)
    /\ ~ButtonController_isPressed(UnknownButton)

\* C34: for each button, an accepted change of state is at least debounceMs
\* after the previous accepted one (after time 0 for the first), measured as
\* (currentTimeMs - last_change) modulo 2^32; a change of the raw level seen
\* earlier than that is not stored and not reported in that update, also when
\* currentTimeMs has wrapped around from 2^32 - 1 to 0.
C34_Debounce ==
    [][(btn_last'.op = "update" /\ btn_initialized)
       => \A i \in Buttons :
             LET since == (btn_last'.time - btn_last_change[i] + Word) % Word
                 level == IF i % 2 = 1 THEN ~btn_last'.raw[i] ELSE btn_last'.raw[i]
             IN /\ btn_states'[i] # btn_states[i]
                   => (since >= btn_debounce /\ btn_last_change'[i] = btn_last'.time)
                /\ (level # btn_states[i] /\ since < btn_debounce)
                   => /\ btn_states'[i] = btn_states[i]
                      /\ btn_last_change'[i] = btn_last_change[i]
                      /\ \A k \in 1..Len(btn_last'.events) : btn_last'.events[k].id # i]_vars

\* a change seen one millisecond after the accepted one, across the wrap of
\* the clock, was not taken
C34_Witness ==
    /\ btn_initialized /\ btn_callback
    /\ btn_debounce = 2
    /\ btn_last.op = "update" /\ btn_last.time = 0
    /\ btn_last_change[1] = Word - 1
    /\ btn_states[1]
    /\ btn_last.raw[1]
    /\ btn_last.events = <<>>

\* C35: for GenericMux, in every state after init() the current channel is
\* below 2^NumPins and select pin i carries bit i of the current channel;
\* select(c) with c >= 2^NumPins or before init() changes neither the pins
\* nor the current channel; select(c) with c the current channel writes no pin
\* and inserts no settle delay; for a valid different c every select pin is
\* written with its bit of c, then comes the settle delay, and only then the
\* signal pin is read.
C35_MuxSelect ==
    [][LET call == mux_last'
           hw == call.hw
           writes == {k \in 1..Len(hw) : hw[k].op = "digitalWrite"}
           delays == {k \in 1..Len(hw) : hw[k].op = "delayMicroseconds"}
           reads == {k \in 1..Len(hw) : hw[k].op \in {"digitalRead", "analogRead"}}
       IN /\ mux_initialized'
             => /\ mux_current' < 2 ^ NumPins
                /\ \A i \in SelectPins : mux_pins'[i] <=> ((mux_current' \div (2 ^ i)) % 2 = 1)
          /\ call.op \in {"select", "readDigital", "readAnalog"}
             => /\ (call.channel >= 2 ^ NumPins \/ ~mux_initialized)
                   => (mux_pins' = mux_pins /\ mux_current' = mux_current /\ writes = {})
                /\ call.channel = mux_current => (writes = {} /\ delays = {})
                /\ (mux_initialized /\ call.channel < 2 ^ NumPins /\ call.channel # mux_current)
                   => /\ mux_current' = call.channel
                      /\ \A i \in SelectPins :
                            \E k \in writes :
                                /\ hw[k].pin = i
                                /\ hw[k].value <=> ((call.channel \div (2 ^ i)) % 2 = 1)
                      /\ Cardinality(writes) = NumPins
                      /\ Cardinality(delays) = 1
                      /\ \A k \in writes, d \in delays : k < d
                      /\ \A d \in delays, r \in reads : d < r
                /\ call.op = "select" => reads = {}
                /\ call.op # "select" => Cardinality(reads) = 1]_vars

\* readAnalog(2) on channel 1: both select pins written, then the delay, then
\* the read
C35_Witness ==
    /\ mux_initialized
    /\ mux_last.op = "readAnalog" /\ mux_last.channel = 2
    /\ Len(mux_last.hw) = NumPins + 2
    /\ mux_current = 2
    /\ ~mux_pins[0] /\ mux_pins[1]

\* C36: for UsbMidi after init(), allNotesOff() sends a NoteOff for every
\* (channel, note) that had a sendNoteOn not followed by a matching
\* sendNoteOff, sends none for a note already turned off, and leaves no slot
\* active, also when more than maxActiveNotes notes sound at once; the number
\* of active slots never exceeds maxActiveNotes.
C36_AllNotesOff ==
    [][/\ (midi_last'.op = "allNotesOff" /\ midi_initialized)
          => LET sent == midi_last'.sent
                 offs == {[channel |-> sent[k].channel, note |-> sent[k].note] :
                            k \in {j \in 1..Len(sent) : sent[j].type = "NoteOff"}}
             IN /\ offs = midi_sounding
                /\ \A k \in 1..Len(midi_active') : ~midi_active'[k].active
       /\ Cardinality({k \in 1..Len(midi_active') : midi_active'[k].active}) <= midi_max']_vars

\* C37: before a successful init(), update() of ButtonController,
\* EncoderController, UsbMidi and UsbSerial calls no callback, takes no input
\* from where it waits and changes nothing of the driver's state, whatever the
\* inputs are.
C37_UpdateBeforeInitIsNoOp ==
    [][/\ (btn_last'.op = "update" /\ ~btn_initialized)
          => /\ btn_last'.events = <<>>
             /\ UNCHANGED <<btn_initialized, btn_states, btn_last_change, btn_callback,
                            btn_debounce, btn_lastEvent>>
       /\ (enc_last'.op = "update" /\ ~enc_initialized)
          => /\ enc_last'.called = {}
             /\ UNCHANGED <<enc_initialized, enc_hw, enc_pending, enc_callback>>
       /\ (midi_last'.op = "update" /\ ~midi_initialized)
          => /\ midi_called' = <<>>
             /\ UNCHANGED <<midi_initialized, midi_max, midi_active, midi_on, midi_in>>
       /\ (usb_last'.op = "update" /\ ~usb_initialized)
          => /\ usb_received' = <<>>
             /\ UNCHANGED <<usb_initialized, usb_maxFrameSize, usb_onReceive, usb_decoder,
                            serial_in, serial_out>>]_vars

\* UsbMidi::update() was called before init() with a callback set and its
\* message waiting: the message still waits
C37_Witness ==
    /\ polled = "UsbMidi"
    /\ ~midi_initialized
    /\ midi_last.op = "update"
    /\ midi_in = <<"NoteOn", "ControlChange">>
    /\ midi_on = {"NoteOn", "ControlChange"}
    /\ midi_called = <<>>

=============================================================================
